---- MODULE Spec2Model ----
(***************************************************************************)
(* Barcode Rendering & Print-Layout Engine: generation-mode router, batch  *)
(* renderers (client and server), print-ready route handlers and sheet     *)
(* layout, ignoreDigits processing, the small-label font policy, request   *)
(* validation, the ZIP stream, the streamed-response consumer and the     *)
(* StepThree generation dialog.                                            *)
(*                                                                         *)
(* Lengths are integers: a configured width/height is kept in tenths of    *)
(* its unit (0.5 cm = 5, 1.2 inches = 12); millimetres are kept in         *)
(* hundredths (1 mm = 100); font sizes are kept in tenths of a pixel.      *)
(* Request validation keeps widths, heights and font sizes in hundredths.  *)
(* The complexity factor is kept in thousandths (1.5 = 1500).              *)
(***************************************************************************)
EXTENDS Integers, Sequences, FiniteSets, TLC

VARIABLES
    \* ---- generation-mode router (hybridRouting.ts, apiClient.ts) ----
    rConfig,          \* the BarcodeConfig handed to determineGenerationMode
    dataCount,        \* the dataCount handed to determineGenerationMode
    rPc,              \* position of the call: idle, probing, resumed, done, rejected
    probes,           \* number of checkAPIHealth invocations during the call
    fetchOutcome,     \* what fetch(/health) did: none, ok, not_ok, network_error, timeout
    health,           \* what checkAPIHealth produced: [threw, value]
    decision,         \* the RoutingDecision returned
    \* ---- processData (client and server barcodeGenerator.ts) ----
    pData,            \* the data value, a sequence of characters
    pIgnore,          \* options.ignoreDigits, or NoIgnoreDigits when absent
    pClient,          \* what the client's processData returned: [set, value]
    pServer,          \* what the server's processData returned: [set, value]
    \* ---- single-item renderers (generate1DBarcode, generateBarcode) ----
    sData,            \* the data value
    sOptions,         \* type, dimensions, font, options, orientation of the variant
    sPc,              \* ready, client (rendered by the client), server
    sCall,            \* the options handed to the symbology collaborator
    sImage,           \* what the renderer returned (image, null) or threw
    \* ---- batch renderers and their handlers ----
    bData,            \* the data list of the request
    bConfig,          \* the BarcodeConfig of the request
    bLayoutConfig,    \* the merged PrintLayoutConfig (print-ready paths)
    bRejected,        \* the data values the symbology collaborator throws on
    bPath,            \* ready, then the handler that ran: client, zip, png, pdf
    bImages,          \* the images the batch renderer handed on, in order
    bRenderFailed,    \* the data value whose rendering threw, <<>> if none did
    bLayoutFrom,      \* number of images the final layout was computed from, -1 if none
    bResponse,        \* what the caller got: status, error, message, body sent
    \* ---- grid layout planner and compositors (pngGenerator, pdfGenerator) ----
    lBarcodes,        \* generatedBarcodes: the pixel size of every rendered image
    lDualMode,        \* barcodeConfig.dualMode
    lPartial,         \* the Partial<PrintLayoutConfig> of the request
    lPng,             \* the sheet generatePrintReadyPNG composed, or NoSheet
    lPdf,             \* the sheet generatePrintReadyPDF composed, or NoSheet
    \* ---- request validation (validateRequest, barcodeRequest.schema.ts) ----
    vRequest,         \* the endpoint and the request body
    vResponse,        \* none, the 400 answer with its details, or next()
    \* ---- POST /generate from createZipStream on (zipGenerator.ts) ----
    zPending,         \* chunks the archive has still to emit, per entry
    zBody,            \* the chunks written to the response so far
    zHeadersSent,     \* res.headersSent
    zStatus,          \* none, or the status line that went out: 200, 500
    zPc,              \* piping, ended, failed
    \* ---- streamed-response consumer (apiClient.ts) ----
    cKind,            \* which consumer: zip, png, pdf
    cTotal,           \* Content-Length, 0 when the header is absent
    cIncoming,        \* chunks the body has still to deliver
    cChunks,          \* chunks pushed so far
    cReceivedLength,  \* receivedLength
    cProgress,        \* the onProgress calls made so far
    cPc,              \* reading, done
    cBlob,            \* the bytes of the blob returned, <<>> before
    \* ---- StepThree generation dialog (step-three.tsx) ----
    gIsGenerating,    \* isGenerating: the dialog is open
    gStatus,          \* status: idle, determining, generating, success, error
    gProgress,        \* progress
    gRuns,            \* the handler calls started so far: which, and where each is
    gTimers           \* auto-close timers set and not yet fired

routerVars == <<rConfig, dataCount, rPc, probes, fetchOutcome, health, decision>>

processVars == <<pData, pIgnore, pClient, pServer>>

renderVars == <<sData, sOptions, sPc, sCall, sImage>>

batchVars == <<bData, bConfig, bLayoutConfig, bRejected, bPath, bImages,
               bRenderFailed, bLayoutFrom, bResponse>>

layoutVars == <<lBarcodes, lDualMode, lPartial, lPng, lPdf>>

validateVars == <<vRequest, vResponse>>

zipVars == <<zPending, zBody, zHeadersSent, zStatus, zPc>>

streamVars == <<cKind, cTotal, cIncoming, cChunks, cReceivedLength, cProgress, cPc, cBlob>>

dialogVars == <<gIsGenerating, gStatus, gProgress, gRuns, gTimers>>

\* The components around the HTTP boundary and the dialog.
boundaryVars == <<validateVars, zipVars, streamVars, dialogVars>>

\* What the actions of one component leave alone: every other component.
notRouterVars == <<processVars, renderVars, batchVars, layoutVars, boundaryVars>>
notProcessVars == <<routerVars, renderVars, batchVars, layoutVars, boundaryVars>>
notRenderVars == <<routerVars, processVars, batchVars, layoutVars, boundaryVars>>
notBatchVars == <<routerVars, processVars, renderVars, layoutVars, boundaryVars>>
notLayoutVars == <<routerVars, processVars, renderVars, batchVars, boundaryVars>>
coreVars == <<routerVars, processVars, renderVars, batchVars, layoutVars>>
notValidateVars == <<coreVars, zipVars, streamVars, dialogVars>>
notZipVars == <<coreVars, validateVars, streamVars, dialogVars>>
notStreamVars == <<coreVars, validateVars, zipVars, dialogVars>>
notDialogVars == <<coreVars, validateVars, zipVars, streamVars>>

vars == <<rConfig, dataCount, rPc, probes, fetchOutcome, health, decision,
          pData, pIgnore, pClient, pServer,
          sData, sOptions, sPc, sCall, sImage,
          bData, bConfig, bLayoutConfig, bRejected, bPath, bImages,
          bRenderFailed, bLayoutFrom, bResponse,
          lBarcodes, lDualMode, lPartial, lPng, lPdf,
          vRequest, vResponse,
          zPending, zBody, zHeadersSent, zStatus, zPc,
          cKind, cTotal, cIncoming, cChunks, cReceivedLength, cProgress, cPc, cBlob,
          gIsGenerating, gStatus, gProgress, gRuns, gTimers>>

(***************************************************************************)
(* Bounds                                                                  *)
(***************************************************************************)
MaxDataCount == 102
MaxDataLen == 3
MaxItems == 2

(***************************************************************************)
(* Program constants                                                       *)
(***************************************************************************)
CLIENT_SIDE_THRESHOLD == 20
SERVER_FALLBACK_THRESHOLD == 100
MaxIgnoreCount == 20

BarcodeTypes == {"code128", "qr", "ean13"}
Units == {"cm", "inches"}

Max(a, b) == IF a >= b THEN a ELSE b
Min(a, b) == IF a <= b THEN a ELSE b

(***************************************************************************)
(* processData: ignoreDigits                                               *)
(***************************************************************************)
Chars == {"1", "2"}

RECURSIVE StringsOfLen(_)
StringsOfLen(n) ==
    IF n = 0 THEN {<<>>}
    ELSE {Append(s, c) : s \in StringsOfLen(n - 1), c \in Chars}

\* Non-empty data values of at most n characters.
StringsUpTo(n) == UNION {StringsOfLen(k) : k \in 1..n}

NoIgnoreDigits == [present |-> FALSE, enabled |-> FALSE, position |-> "start", count |-> 0]

IgnoreDigitsValues ==
    {NoIgnoreDigits} \cup
    [present : {TRUE}, enabled : BOOLEAN, position : {"start", "end"},
     count : 0..MaxIgnoreCount]

\* String.prototype.slice: a relative index, negative ones counted from the
\* end, clamped to 0..len.  (-0 is 0.)
SliceIndex(k, len) == IF k < 0 THEN Max(len + k, 0) ELSE Min(k, len)

slice(str, start, end) ==
    LET from == SliceIndex(start, Len(str))
        to == SliceIndex(end, Len(str))
    IN  IF from >= to THEN <<>> ELSE SubSeq(str, from + 1, to)

\* processData(data, ignoreDigits) of the server; the client's
\* processData(data, configuration) reads configuration.options.ignoreDigits
\* and is the same code.
processData(data, ignoreDigits) ==
    IF ~ignoreDigits.present \/ ~ignoreDigits.enabled
    THEN data
    ELSE IF ignoreDigits.position = "start"
         THEN slice(data, ignoreDigits.count, Len(data))
         ELSE slice(data, 0, 0 - ignoreDigits.count)

processDataClient(data, ignoreDigits) == processData(data, ignoreDigits)

Unset == [set |-> FALSE, value |-> <<>>]

ProcessIdle ==
    /\ pData = <<"1">>
    /\ pIgnore = NoIgnoreDigits
    /\ pClient = Unset
    /\ pServer = Unset

ProcessInit ==
    /\ pData \in StringsUpTo(MaxDataLen)
    /\ pIgnore \in IgnoreDigitsValues
    /\ pClient = Unset
    /\ pServer = Unset

\* The client renderer processes the value (part_001, generate1DBarcode).
ProcessDataClient ==
    /\ ~pClient.set
    /\ pClient' = [set |-> TRUE, value |-> processDataClient(pData, pIgnore)]
    /\ UNCHANGED <<pData, pIgnore, pServer>>
    /\ UNCHANGED notProcessVars

\* The server renderer processes the value (generateBarcode).
ProcessDataServer ==
    /\ ~pServer.set
    /\ pServer' = [set |-> TRUE, value |-> processData(pData, pIgnore)]
    /\ UNCHANGED <<pData, pIgnore, pClient>>
    /\ UNCHANGED notProcessVars

ProcessNext == ProcessDataClient \/ ProcessDataServer

(***************************************************************************)
(* Single-item renderers                                                   *)
(***************************************************************************)
\* Math.round(n / d) for n >= 0, d > 0.
RoundDiv(n, d) == (2 * n + d) \div (2 * d)

\* Math.round((value / 2.54) * DPI) for cm, Math.round(value * DPI) for
\* inches; value in tenths of the unit.
toPixelsAt(value, unit, dpi) ==
    IF unit = "cm" THEN RoundDiv(value * dpi * 10, 254)
    ELSE RoundDiv(value * dpi, 10)

convertToPixels(value, unit) == toPixelsAt(value, unit, 96)

\* convertConfigToPixels: the size the print-ready generators fall back to
\* for an image whose metadata has none; exchanged when vertical.
convertConfigToPixels(width, height, unit, isVertical) ==
    LET widthPx == toPixelsAt(width, unit, 96)
        heightPx == toPixelsAt(height, unit, 96)
    IN  IF isVertical THEN [width |-> heightPx, height |-> widthPx]
        ELSE [width |-> widthPx, height |-> heightPx]

\* heightCm < 1: height in cm, inches times 2.54 (height in tenths, compared
\* in thousandths of a cm).
isSmallBarcode(options) ==
    IF options.unit = "cm" THEN options.height * 100 < 1000
    ELSE options.height * 254 < 1000

\* autoAdjustFont !== false: true when undefined or explicitly true.
shouldAutoAdjust(options) == options.autoAdjustFont # "false"

\* Client: Math.max(font.size * 0.7, 6) for small labels, in tenths of a px.
clientAdjustedFontSize(options) ==
    IF isSmallBarcode(options) /\ shouldAutoAdjust(options)
    THEN Max(options.fontSize * 7, 60)
    ELSE options.fontSize * 10

\* Server: Math.min(fontSize * 1.3, 14) for small labels, in tenths of a px.
serverAdjustedFontSize(options) ==
    IF isSmallBarcode(options) /\ shouldAutoAdjust(options)
    THEN Min(options.fontSize * 13, 140)
    ELSE options.fontSize * 10

\* formatMap[configuration.type] || "CODE128"
formatMap(type) ==
    CASE type = "code128" -> "CODE128"
      [] type = "ean13" -> "EAN13"
      [] type = "ean8" -> "EAN8"
      [] type = "upca" -> "UPC"
      [] type = "code39" -> "CODE39"
      [] OTHER -> "CODE128"

\* typeMap[type] || 'code128'
mapBarcodeType(type) ==
    CASE type = "code128" -> "code128"
      [] type = "qr" -> "qrcode"
      [] type = "ean13" -> "ean13"
      [] type = "ean8" -> "ean8"
      [] type = "upca" -> "upca"
      [] type = "code39" -> "code39"
      [] OTHER -> "code128"

\* `barcode_${data}_${width}x${height}${unit}.png`
Filename(data, width, height, unit) ==
    [data |-> data, width |-> width, height |-> height, unit |-> unit]

NoCall == [collaborator |-> "none"]
NoImage == [kind |-> "none"]

\* The options generate1DBarcode hands to JsBarcode.  width is in hundredths
\* of a px, height and fontSize in tenths.
JsBarcodeOptions(data, options) ==
    LET DPI == IF isSmallBarcode(options) THEN 288 ELSE 96
        generateWidth == toPixelsAt(options.width, options.unit, DPI)
        generateHeight == toPixelsAt(options.height, options.unit, DPI)
    IN  [collaborator |-> "JsBarcode",
         text |-> processDataClient(data, options.ignoreDigits),
         format |-> formatMap(options.type),
         dpi |-> DPI,
         width |-> IF options.stretch THEN generateWidth ELSE 200,
         height |-> generateHeight * 9,
         displayValue |-> options.showText,
         fontSize |-> clientAdjustedFontSize(options),
         textMargin |-> IF isSmallBarcode(options) /\ shouldAutoAdjust(options)
                        THEN 6 ELSE 16]

\* generate1DBarcode: null when JsBarcode throws (caught, logged), else the
\* final canvas, 96 DPI target size with width and height exchanged for the
\* vertical orientation.
generate1DBarcode(data, options, rejected) ==
    IF rejected THEN [kind |-> "null"]
    ELSE LET w == toPixelsAt(options.width, options.unit, 96)
             h == toPixelsAt(options.height, options.unit, 96)
             isVertical == options.orientation = "vertical"
         IN  [kind |-> "image",
              width |-> IF isVertical THEN h ELSE w,
              height |-> IF isVertical THEN w ELSE h,
              dataUrl |-> "png",
              filename |-> Filename(data, options.width, options.height, options.unit)]

\* generateQRCode: returns an empty dataUrl, the QRCode component draws it.
generateQRCode(data, options) ==
    [kind |-> "image", width |-> 0, height |-> 0, dataUrl |-> "",
     filename |-> Filename(data, options.width, options.height, options.unit)]

\* Client generateBarcode: dispatch on the type.
clientGenerateBarcode(data, options, rejected) ==
    IF options.type = "qr" THEN generateQRCode(data, options)
    ELSE generate1DBarcode(data, options, rejected)

\* The options generateBarcode hands to bwipjs.toBuffer.  textsize in tenths.
BwipOptions(data, options) ==
    LET adjust == isSmallBarcode(options) /\ shouldAutoAdjust(options)
    IN  [collaborator |-> "bwip-js",
         bcid |-> mapBarcodeType(options.type),
         text |-> processData(data, options.ignoreDigits),
         scale |-> IF adjust THEN 1 ELSE 2,
         includetext |-> options.showText,
         textsize |-> serverAdjustedFontSize(options),
         textyoffset |-> IF adjust THEN 6 ELSE 12,
         height |-> IF options.type # "qr" /\ adjust THEN 8 ELSE 0]

\* sharp resize(w, h, {fit}) of a natural-size image: 'fill' forces w x h,
\* 'inside' keeps the aspect ratio and fits within w x h.
SharpResize(natural, w, h, stretch) ==
    IF stretch THEN [w |-> w, h |-> h]
    ELSE IF natural.w * h > natural.h * w
         THEN [w |-> w, h |-> Max(1, RoundDiv(natural.h * w, natural.w))]
         ELSE [w |-> Max(1, RoundDiv(natural.w * h, natural.h)), h |-> h]

\* Server generateBarcode: throws 'Failed to generate barcode for data: <data>'
\* when anything inside throws; else the resized, possibly rotated image.
generateBarcode(data, options, rejected, natural) ==
    IF rejected
    THEN [kind |-> "threw",
          message |-> [text |-> "Failed to generate barcode for data: ", data |-> data]]
    ELSE LET widthPx == convertToPixels(options.width, options.unit)
             heightPx == convertToPixels(options.height, options.unit)
             isVertical == options.orientation = "vertical"
             resizeWidthPx == IF isVertical THEN heightPx ELSE widthPx
             resizeHeightPx == IF isVertical THEN widthPx ELSE heightPx
             resized == SharpResize(natural, resizeWidthPx, resizeHeightPx, options.stretch)
         IN  [kind |-> "image",
              width |-> IF isVertical THEN resized.h ELSE resized.w,
              height |-> IF isVertical THEN resized.w ELSE resized.h,
              filename |-> Filename(processData(data, options.ignoreDigits),
                                    options.width, options.height, options.unit)]

\* Inputs the single-item renderers are exercised with.
DataValues == {<<"1", "2">>, <<"2", "1", "1">>}
WidthValues == {30, 50}
HeightValues == {3, 4, 9, 10, 30}
FontSizes == {8, 9, 10, 11, 12, 48}
AutoAdjustValues == {"undefined", "true", "false"}
Orientations == {"horizontal", "vertical"}
RenderIgnoreDigits ==
    {NoIgnoreDigits,
     [present |-> TRUE, enabled |-> TRUE, position |-> "start", count |-> 1]}
NaturalSizes == {[w |-> 200, h |-> 100], [w |-> 60, h |-> 120]}

RenderOptions ==
    [type : BarcodeTypes, width : WidthValues, height : HeightValues, unit : Units,
     showText : BOOLEAN, stretch : BOOLEAN, fontSize : FontSizes,
     autoAdjustFont : AutoAdjustValues, ignoreDigits : RenderIgnoreDigits,
     orientation : Orientations]

RenderIdle ==
    /\ sData = <<"1">>
    /\ sOptions = [type |-> "code128"]
    /\ sPc = "off"
    /\ sCall = NoCall
    /\ sImage = NoImage

RenderInit ==
    /\ sData \in DataValues
    /\ sOptions \in RenderOptions
    /\ sPc = "ready"
    /\ sCall = NoCall
    /\ sImage = NoImage

\* Client generateBarcode({data, configuration, filename}); JsBarcode either
\* draws the symbol or throws on a value it cannot encode.
ClientRenderItem ==
    /\ sPc = "ready"
    /\ \E rejected \in BOOLEAN :
          /\ sImage' = clientGenerateBarcode(sData, sOptions, rejected)
    /\ sCall' = IF sOptions.type = "qr" THEN NoCall ELSE JsBarcodeOptions(sData, sOptions)
    /\ sPc' = "client"
    /\ UNCHANGED <<sData, sOptions>>
    /\ UNCHANGED notRenderVars

\* Server generateBarcode(data, options); bwip-js either returns a symbol of
\* some natural size or throws.
ServerRenderItem ==
    /\ sPc = "ready"
    /\ \E rejected \in BOOLEAN, natural \in NaturalSizes :
          /\ sImage' = generateBarcode(sData, sOptions, rejected, natural)
    /\ sCall' = BwipOptions(sData, sOptions)
    /\ sPc' = "server"
    /\ UNCHANGED <<sData, sOptions>>
    /\ UNCHANGED notRenderVars

RenderNext == ClientRenderItem \/ ServerRenderItem

(***************************************************************************)
(* Generation-mode router                                                  *)
(***************************************************************************)
\* Widths and heights (tenths of the unit) the router is exercised with.
RouterDims == {50, 100, 101}

RouterConfigs ==
    [type : BarcodeTypes, dualMode : BOOLEAN, width : RouterDims,
     height : RouterDims, unit : Units, stretch : BOOLEAN]

\* avgDimension > 10 on the raw numbers: (width + height) / 2 > 10, the unit
\* is not looked at.  In tenths: width + height > 200.
IsLargeDimension(configuration) ==
    configuration.width + configuration.height > 200

\* factor, in thousandths.  Each multiplication is exact in thousandths for
\* every combination of the four multipliers (1.5, 2, 1.2, 1.1).
calculateComplexityFactor(configuration) ==
    LET f0 == 1000
        f1 == IF configuration.type = "qr" THEN (f0 * 15) \div 10 ELSE f0
        f2 == IF configuration.dualMode THEN f1 * 2 ELSE f1
        f3 == IF IsLargeDimension(configuration) THEN (f2 * 12) \div 10 ELSE f2
        f4 == IF configuration.stretch THEN (f3 * 11) \div 10 ELSE f3
    IN  Max(1000, f4)

adjustedThresholdOf(configuration) ==
    (CLIENT_SIDE_THRESHOLD * 1000) \div calculateComplexityFactor(configuration)

\* Mutation of IsSmallDataset: the boundary compared strictly.
IsSmallDataset_Strict(count, adjustedThreshold) == count < adjustedThreshold

\* dataCount <= adjustedThreshold: the first branch of determineGenerationMode.
IsSmallDataset(count, adjustedThreshold) == count <= adjustedThreshold

\* dataCount > SERVER_FALLBACK_THRESHOLD: the large-dataset branch.
IsLargeDataset(count) == count > SERVER_FALLBACK_THRESHOLD

NoDecision == [mode |-> "none", reason |-> "", threshold |-> 0]
NoHealth == [threw |-> FALSE, value |-> FALSE]

FetchOutcomes == {"ok", "not_ok", "network_error", "timeout"}

\* Mutation of checkAPIHealth: the fetch is not wrapped in try/catch.
checkAPIHealth_NoCatch(outcome) ==
    IF outcome \in {"network_error", "timeout"}
    THEN [threw |-> TRUE, value |-> FALSE]
    ELSE [threw |-> FALSE, value |-> (outcome = "ok")]

\* checkAPIHealth: fetch inside try, `return response.ok`; a rejected fetch
\* (network error, AbortSignal timeout) lands in catch, which returns false.
checkAPIHealth(outcome) ==
    IF outcome \in {"network_error", "timeout"}
    THEN [threw |-> FALSE, value |-> FALSE]
    ELSE [threw |-> FALSE, value |-> (outcome = "ok")]

\* Mutation of DecisionAfterProbe: the large-dataset branch does not look at
\* the probe's answer.
DecisionAfterProbe_LargeAlwaysServer(count, adjustedThreshold, isAPIAvailable) ==
    IF IsLargeDataset(count) \/ isAPIAvailable
    THEN [mode |-> "server",
          reason |-> "Large dataset (${dataCount} items). Server-side generation is more efficient.",
          threshold |-> adjustedThreshold]
    ELSE [mode |-> "client",
          reason |-> "API unavailable. Using client-side generation.",
          threshold |-> adjustedThreshold]

\* The decision determineGenerationMode returns once the probe has answered.
DecisionAfterProbe(count, adjustedThreshold, isAPIAvailable) ==
    IF IsLargeDataset(count)
    THEN IF isAPIAvailable
         THEN [mode |-> "server",
               reason |-> "Large dataset (${dataCount} items). Server-side generation is more efficient.",
               threshold |-> adjustedThreshold]
         ELSE [mode |-> "client",
               reason |-> "API unavailable. Falling back to client-side generation.",
               threshold |-> adjustedThreshold]
    ELSE IF isAPIAvailable
         THEN [mode |-> "server",
               reason |-> "Medium dataset (${dataCount} items). Using server for better performance.",
               threshold |-> adjustedThreshold]
         ELSE [mode |-> "client",
               reason |-> "API unavailable. Using client-side generation.",
               threshold |-> adjustedThreshold]

RouterIdle ==
    /\ rConfig = [type |-> "code128", dualMode |-> FALSE, width |-> 50,
                  height |-> 50, unit |-> "cm", stretch |-> FALSE]
    /\ dataCount = 1
    /\ rPc = "off"
    /\ probes = 0
    /\ fetchOutcome = "none"
    /\ health = NoHealth
    /\ decision = NoDecision

RouterInit ==
    /\ rConfig \in RouterConfigs
    /\ dataCount \in 1..MaxDataCount
    /\ rPc = "idle"
    /\ probes = 0
    /\ fetchOutcome = "none"
    /\ health = NoHealth
    /\ decision = NoDecision

\* determineGenerationMode up to its first return or its await.
DetermineStart ==
    /\ rPc = "idle"
    /\ LET adjustedThreshold == adjustedThresholdOf(rConfig)
       IN  IF IsSmallDataset(dataCount, adjustedThreshold)
           THEN /\ decision' = [mode |-> "client",
                                reason |-> "Small dataset (${dataCount} items). Client-side generation is faster.",
                                threshold |-> adjustedThreshold]
                /\ rPc' = "done"
           ELSE /\ decision' = decision
                /\ rPc' = "probing"
    /\ UNCHANGED <<rConfig, dataCount, probes, fetchOutcome, health>>
    /\ UNCHANGED notRouterVars

\* The awaited checkAPIHealth() call; the network decides the outcome.
ProbeHealth ==
    /\ rPc = "probing"
    /\ \E outcome \in FetchOutcomes :
          /\ fetchOutcome' = outcome
          /\ health' = checkAPIHealth(outcome)
    /\ probes' = probes + 1
    /\ rPc' = "resumed"
    /\ UNCHANGED <<rConfig, dataCount, decision>>
    /\ UNCHANGED notRouterVars

\* determineGenerationMode after the await: a rejected probe rejects the call.
DetermineFinish ==
    /\ rPc = "resumed"
    /\ IF health.threw
       THEN /\ rPc' = "rejected"
            /\ decision' = decision
       ELSE /\ rPc' = "done"
            /\ decision' = DecisionAfterProbe(dataCount, adjustedThresholdOf(rConfig),
                                              health.value)
    /\ UNCHANGED <<rConfig, dataCount, probes, fetchOutcome, health>>
    /\ UNCHANGED notRouterVars

RouterNext == DetermineStart \/ ProbeHealth \/ DetermineFinish

(***************************************************************************)
(* Batch renderers and their handlers                                      *)
(*                                                                         *)
(* Layout lengths are integers in units of 1/9600 mm, in which a 96-DPI    *)
(* pixel (25.4 / 96 mm), a tenth of a cm, a tenth of an inch and 0.25 mm   *)
(* are all whole numbers.                                                  *)
(***************************************************************************)
NoDimensions == [present |-> FALSE, width |-> 0, height |-> 0, unit |-> "cm"]
NoFont == [present |-> FALSE, size |-> 0, autoAdjustFont |-> "undefined"]

\* Requests the batch handlers are exercised with.
BatchTypes == {"code128", "qr"}
BatchWidths == {50, 90}
BatchDualDimensions ==
    {NoDimensions, [present |-> TRUE, width |-> 30, height |-> 20, unit |-> "cm"]}
BatchDualFonts ==
    {NoFont, [present |-> TRUE, size |-> 8, autoAdjustFont |-> "false"]}

BatchConfigs ==
    [type : BatchTypes,
     dimensions : [width : BatchWidths, height : {30}, unit : {"cm"}],
     font : {[size |-> 12, autoAdjustFont |-> "undefined"]},
     options : [showText : {TRUE}, stretch : {FALSE}, ignoreDigits : {NoIgnoreDigits}],
     dualMode : BOOLEAN,
     dualDimensions : BatchDualDimensions,
     dualFont : BatchDualFonts,
     orientation : Orientations]

\* getDefaultLayoutConfig with canvasWidthCm and continuousMode overridden
\* (a 10 cm canvas holds the 5 cm label and not the 9 cm one);
\* canvasWidthCm in cm, the other lengths in hundredths of a mm.
BatchLayoutConfigs ==
    [canvasWidthCm : {10}, continuousMode : BOOLEAN,
     marginsMm : {[top |-> 1000, bottom |-> 1000, left |-> 1000, right |-> 1000]},
     spacingMm : {500}, borderWidthMm : {50}]

\* The renders the barcode library rejects: at most two of the
\* (data, variant) renders of a request.
Variants == {"primary", "secondary"}
RejectedSets == {S \in SUBSET (DataValues \X Variants) : Cardinality(S) <= 2}

RECURSIVE ListsOfLen(_)
ListsOfLen(n) ==
    IF n = 0 THEN {<<>>}
    ELSE {Append(l, d) : l \in ListsOfLen(n - 1), d \in DataValues}

\* generatePrintReadyRequestSchema: data has at least 20 items.
PrintReadyMinItems == 20

\* Short lists, and lists long enough for the print-ready routes: a run of
\* one value followed by every ending of two items.
Filler == [i \in 1..(PrintReadyMinItems - 2) |-> <<"1", "2">>]
DataLists(n) ==
    UNION {ListsOfLen(k) : k \in 1..n} \cup {Filler \o t : t \in ListsOfLen(2)}

\* Lengths in 1/9600 mm.
cmToMm(cm) == cm * 96000
hundredthsOfMm(v) == v * 96
pxToMm(px) == px * 2540
toMm(value, unit) == IF unit = "cm" THEN value * 9600 ELSE value * 24384
internalPaddingMm == 2400

\* ---- the options each path derives from the BarcodeConfig ----
\* Client: generate1DBarcode reads the configuration itself.
clientOptions(configuration) ==
    [type |-> configuration.type,
     width |-> configuration.dimensions.width,
     height |-> configuration.dimensions.height,
     unit |-> configuration.dimensions.unit,
     showText |-> configuration.options.showText,
     stretch |-> configuration.options.stretch,
     fontSize |-> configuration.font.size,
     autoAdjustFont |-> configuration.font.autoAdjustFont,
     ignoreDigits |-> configuration.options.ignoreDigits,
     orientation |-> configuration.orientation]

\* Client dualConfig: {...configuration, dimensions: dualDimensions,
\* font: dualFont || font, dualMode: false}.
clientDualConfig(configuration) ==
    [configuration EXCEPT
        !.dimensions = [width |-> configuration.dualDimensions.width,
                        height |-> configuration.dualDimensions.height,
                        unit |-> configuration.dualDimensions.unit],
        !.font = IF configuration.dualFont.present
                 THEN [size |-> configuration.dualFont.size,
                       autoAdjustFont |-> configuration.dualFont.autoAdjustFont]
                 ELSE configuration.font,
        !.dualMode = FALSE]

\* POST /generate: options (no orientation is passed, so horizontal).
zipOptions(configuration) ==
    [type |-> configuration.type,
     width |-> configuration.dimensions.width,
     height |-> configuration.dimensions.height,
     unit |-> configuration.dimensions.unit,
     showText |-> configuration.options.showText,
     stretch |-> configuration.options.stretch,
     fontSize |-> configuration.font.size,
     autoAdjustFont |-> configuration.font.autoAdjustFont,
     ignoreDigits |-> configuration.options.ignoreDigits,
     orientation |-> "horizontal"]

\* POST /generate: dualOptions, built when dualMode && dualDimensions.
zipDualOptions(configuration) ==
    [zipOptions(configuration) EXCEPT
        !.width = configuration.dualDimensions.width,
        !.height = configuration.dualDimensions.height,
        !.unit = configuration.dualDimensions.unit,
        !.fontSize = IF configuration.dualFont.present
                     THEN configuration.dualFont.size
                     ELSE configuration.font.size,
        !.autoAdjustFont = IF configuration.dualFont.present
                              /\ configuration.dualFont.autoAdjustFont # "undefined"
                           THEN configuration.dualFont.autoAdjustFont
                           ELSE configuration.font.autoAdjustFont]

\* generatePrintReadyPNG/PDF: primaryOptions (autoAdjustFont is not passed).
printPrimaryOptions(barcodeConfig) ==
    [type |-> barcodeConfig.type,
     width |-> barcodeConfig.dimensions.width,
     height |-> barcodeConfig.dimensions.height,
     unit |-> barcodeConfig.dimensions.unit,
     showText |-> barcodeConfig.options.showText,
     stretch |-> barcodeConfig.options.stretch,
     fontSize |-> barcodeConfig.font.size,
     autoAdjustFont |-> "undefined",
     ignoreDigits |-> barcodeConfig.options.ignoreDigits,
     orientation |-> barcodeConfig.orientation]

\* generatePrintReadyPNG/PDF: dualOptions = {...primaryOptions, dual dimensions}.
printDualOptions(barcodeConfig) ==
    [printPrimaryOptions(barcodeConfig) EXCEPT
        !.width = barcodeConfig.dualDimensions.width,
        !.height = barcodeConfig.dualDimensions.height,
        !.unit = barcodeConfig.dualDimensions.unit]

\* `dualMode && dualDimensions`: the condition under which every path
\* renders the secondary variant.
hasDual(configuration) ==
    configuration.dualMode /\ configuration.dualDimensions.present

Emitted(data, variant, image) == [data |-> data, variant |-> variant, image |-> image]

\* ---- client generateBarcodes: a null result is not pushed ----
RECURSIVE clientGenerateBarcodes(_, _, _)
clientGenerateBarcodes(dataList, configuration, rejected) ==
    IF dataList = <<>> THEN <<>>
    ELSE LET data == Head(dataList)
             result == clientGenerateBarcode(data, clientOptions(configuration),
                                             <<data, "primary">> \in rejected)
             dualResult == clientGenerateBarcode(
                               data, clientOptions(clientDualConfig(configuration)),
                               <<data, "secondary">> \in rejected)
             first == IF result.kind = "image"
                      THEN <<Emitted(data, "primary", result)>> ELSE <<>>
             second == IF hasDual(configuration) /\ dualResult.kind = "image"
                       THEN <<Emitted(data, "secondary", dualResult)>> ELSE <<>>
         IN  first \o second \o clientGenerateBarcodes(Tail(dataList), configuration, rejected)

\* generateZipFile: dataURLtoBlob throws on an empty dataUrl (atob of
\* undefined); JSZip keeps one entry per distinct name.
clientZipThrows(barcodes) ==
    \E i \in 1..Len(barcodes) : barcodes[i].image.dataUrl = ""

\* ---- server loops: the first throwing render rejects the whole call ----
OkBatch(results) == [kind |-> "ok", results |-> results, message |-> [text |-> "", data |-> <<>>]]

\* A loop in which a render that throws is skipped and the loop goes on
\* (used by the mutation of printGenerateBarcodes).
RECURSIVE ServerLoop_SkipFailed(_, _, _, _, _, _)
ServerLoop_SkipFailed(dataList, options, withDual, dualOptions, rejected, natural) ==
    IF dataList = <<>> THEN OkBatch(<<>>)
    ELSE LET data == Head(dataList)
             barcode == generateBarcode(data, options, <<data, "primary">> \in rejected,
                                        natural)
             dualBarcode == generateBarcode(data, dualOptions,
                                            <<data, "secondary">> \in rejected, natural)
             rest == ServerLoop_SkipFailed(Tail(dataList), options, withDual, dualOptions,
                                           rejected, natural)
             first == IF barcode.kind = "image"
                      THEN <<Emitted(data, "primary", barcode)>> ELSE <<>>
             second == IF withDual /\ dualBarcode.kind = "image"
                       THEN <<Emitted(data, "secondary", dualBarcode)>> ELSE <<>>
         IN  OkBatch(first \o second \o rest.results)

\* for (const data of dataList) { push(await generateBarcode(data, options));
\* if (dual) push(await generateBarcode(data, dualOptions)) }: the loop of
\* generateBarcodes, generatePrintReadyPNG and generatePrintReadyPDF.
RECURSIVE ServerLoop(_, _, _, _, _, _)
ServerLoop(dataList, options, withDual, dualOptions, rejected, natural) ==
    IF dataList = <<>> THEN OkBatch(<<>>)
    ELSE LET data == Head(dataList)
             barcode == generateBarcode(data, options, <<data, "primary">> \in rejected,
                                        natural)
             dualBarcode == generateBarcode(data, dualOptions,
                                            <<data, "secondary">> \in rejected, natural)
             rest == ServerLoop(Tail(dataList), options, withDual, dualOptions,
                                rejected, natural)
         IN  IF barcode.kind = "threw"
             THEN [kind |-> "threw", results |-> <<>>, message |-> barcode.message]
             ELSE IF withDual /\ dualBarcode.kind = "threw"
             THEN [kind |-> "threw", results |-> <<>>, message |-> dualBarcode.message]
             ELSE IF rest.kind = "threw" THEN rest
             ELSE OkBatch(<<Emitted(data, "primary", barcode)>>
                          \o (IF withDual THEN <<Emitted(data, "secondary", dualBarcode)>>
                              ELSE <<>>)
                          \o rest.results)

\* Server generateBarcodes(dataList, options, dualMode, dualOptions).
serverGenerateBarcodes(dataList, configuration, rejected, natural) ==
    ServerLoop(dataList, zipOptions(configuration),
               hasDual(configuration),
               zipDualOptions(configuration), rejected, natural)

\* Mutation of printGenerateBarcodes: failed renders are skipped.
printGenerateBarcodes_SkipFailed(dataList, barcodeConfig, rejected, natural) ==
    ServerLoop_SkipFailed(dataList, printPrimaryOptions(barcodeConfig),
                          hasDual(barcodeConfig), printDualOptions(barcodeConfig),
                          rejected, natural)

\* The render loop of generatePrintReadyPNG / generatePrintReadyPDF.
printGenerateBarcodes(dataList, barcodeConfig, rejected, natural) ==
    ServerLoop(dataList, printPrimaryOptions(barcodeConfig), hasDual(barcodeConfig),
               printDualOptions(barcodeConfig), rejected, natural)

\* ---- layout feasibility ----
\* calculateLayout: columnsPerRow from the configured dimensions.
configuredColumnsPerRow(barcodeConfig, layoutConfig) ==
    LET primaryWidthMm == toMm(barcodeConfig.dimensions.width, barcodeConfig.dimensions.unit)
        dualWidthMm == IF hasDual(barcodeConfig)
                       THEN toMm(barcodeConfig.dualDimensions.width,
                                 barcodeConfig.dualDimensions.unit)
                       ELSE primaryWidthMm
        cellWidth == Max(primaryWidthMm, dualWidthMm)
                     + hundredthsOfMm(layoutConfig.borderWidthMm) * 2
                     + hundredthsOfMm(layoutConfig.spacingMm)
        availableWidth == cmToMm(layoutConfig.canvasWidthCm)
                          - hundredthsOfMm(layoutConfig.marginsMm.left)
                          - hundredthsOfMm(layoutConfig.marginsMm.right)
    IN  availableWidth \div cellWidth

RECURSIVE MaxWidthPx(_)
MaxWidthPx(barcodes) ==
    IF Len(barcodes) = 1 THEN Head(barcodes).image.width
    ELSE Max(Head(barcodes).image.width, MaxWidthPx(Tail(barcodes)))

\* calculateLayoutWithActualSizes: columnsPerRow from the rendered sizes.
actualColumnsPerRow(barcodes, layoutConfig) ==
    LET cellWidthMm == pxToMm(MaxWidthPx(barcodes)) + internalPaddingMm * 2
                       + hundredthsOfMm(layoutConfig.borderWidthMm) * 2
                       + hundredthsOfMm(layoutConfig.spacingMm)
        availableWidthMm == cmToMm(layoutConfig.canvasWidthCm)
                            - hundredthsOfMm(layoutConfig.marginsMm.left)
                            - hundredthsOfMm(layoutConfig.marginsMm.right)
    IN  IF layoutConfig.continuousMode THEN Len(barcodes)
        ELSE IF barcodes = <<>> THEN 0  \* Math.max() is -Infinity, the quotient -0
        ELSE availableWidthMm \div cellWidthMm

TooWide == [text |-> "Barcode is too wide to fit on canvas with specified margins", data |-> <<>>]
NoMessage == [text |-> "", data |-> <<>>]
NoResponse == [status |-> "none", error |-> "", message |-> NoMessage, sent |-> "none"]

\* validateRequest(generatePrintReadyRequestSchema), then generatePrintReadyPNG
\* or generatePrintReadyPDF up to the finished canvas or document:
\* [kind, message, images, layoutFrom, renderFailed].  Only the PNG generator
\* runs calculateLayout on the configured sizes first.
generatePrintReady(format, dataList, barcodeConfig, layoutConfig, rejected, natural) ==
    LET loop == printGenerateBarcodes(dataList, barcodeConfig, rejected, natural)
        failed(msg, renderFailed) ==
            [kind |-> "threw", message |-> msg, images |-> <<>>, layoutFrom |-> -1,
             renderFailed |-> renderFailed]
    IN  IF Len(dataList) < PrintReadyMinItems
        THEN [failed(NoMessage, <<>>) EXCEPT !.kind = "invalid"]
        ELSE IF format = "png" /\ configuredColumnsPerRow(barcodeConfig, layoutConfig) < 1
        THEN failed(TooWide, <<>>)
        ELSE IF loop.kind = "threw"
        THEN failed(loop.message, loop.message.data)
        ELSE IF actualColumnsPerRow(loop.results, layoutConfig) < 1
        THEN [failed(TooWide, <<>>) EXCEPT !.layoutFrom = Len(loop.results)]
        ELSE [kind |-> "ok", message |-> NoMessage, images |-> loop.results,
              layoutFrom |-> Len(loop.results), renderFailed |-> <<>>]

BatchIdle ==
    /\ bData = <<>>
    /\ bConfig = [type |-> "code128"]
    /\ bLayoutConfig = [continuousMode |-> FALSE]
    /\ bRejected = {}
    /\ bPath = "off"
    /\ bImages = <<>>
    /\ bRenderFailed = <<>>
    /\ bLayoutFrom = -1
    /\ bResponse = NoResponse

BatchInit ==
    /\ bData \in DataLists(MaxItems)
    /\ bConfig \in BatchConfigs
    /\ bLayoutConfig \in BatchLayoutConfigs
    /\ bRejected \in RejectedSets
    /\ bPath = "ready"
    /\ bImages = <<>>
    /\ bRenderFailed = <<>>
    /\ bLayoutFrom = -1
    /\ bResponse = NoResponse

\* handleGenerate, client branch: generateBarcodes, then downloadBarcodes.
HandleGenerateClient ==
    /\ bPath = "ready"
    /\ LET barcodes == clientGenerateBarcodes(bData, bConfig, bRejected)
       IN  /\ bImages' = barcodes
           /\ bResponse' =
                 IF clientZipThrows(barcodes)
                 THEN [status |-> "error", error |-> "",
                       message |-> [text |-> "Failed to generate ZIP file", data |-> <<>>],
                       sent |-> "none"]
                 ELSE [status |-> "success", error |-> "", message |-> NoMessage,
                       sent |-> "zip"]
    /\ bPath' = "client"
    /\ UNCHANGED <<bData, bConfig, bLayoutConfig, bRejected, bRenderFailed, bLayoutFrom>>
    /\ UNCHANGED notBatchVars

\* POST /api/barcode/generate: generateBarcodes, then createZipStream.
PostGenerate ==
    /\ bPath = "ready"
    /\ \E natural \in NaturalSizes :
          LET barcodes == serverGenerateBarcodes(bData, bConfig, bRejected, natural)
          IN  IF barcodes.kind = "threw"
              THEN /\ bImages' = <<>>
                   /\ bRenderFailed' = barcodes.message.data
                   /\ bResponse' = [status |-> "500", error |-> "Failed to generate barcodes",
                                    message |-> barcodes.message, sent |-> "none"]
              ELSE /\ bImages' = barcodes.results
                   /\ bRenderFailed' = <<>>
                   /\ bResponse' = [status |-> "200", error |-> "", message |-> NoMessage,
                                    sent |-> "zip"]
    /\ bPath' = "zip"
    /\ UNCHANGED <<bData, bConfig, bLayoutConfig, bRejected, bLayoutFrom>>
    /\ UNCHANGED notBatchVars

\* What a print-ready route answers for the generator's outcome: the file,
\* or the catch block's 500 with error.message.
printReadyResponse(out, format, errorText) ==
    IF out.kind = "invalid"
    THEN [status |-> "400", error |-> "Validation failed", message |-> NoMessage,
          sent |-> "none"]
    ELSE IF out.kind = "threw"
    THEN [status |-> "500", error |-> errorText, message |-> out.message, sent |-> "none"]
    ELSE [status |-> "200", error |-> "", message |-> NoMessage, sent |-> format]

\* POST /api/barcode/generate-pdf: generatePrintReadyPNG, then res.send.
PostGeneratePng ==
    /\ bPath = "ready"
    /\ \E natural \in NaturalSizes :
          LET out == generatePrintReady("png", bData, bConfig, bLayoutConfig,
                                        bRejected, natural)
          IN  /\ bImages' = out.images
              /\ bRenderFailed' = out.renderFailed
              /\ bLayoutFrom' = out.layoutFrom
              /\ bResponse' = printReadyResponse(out, "png", "Failed to generate PNG")
    /\ bPath' = "png"
    /\ UNCHANGED <<bData, bConfig, bLayoutConfig, bRejected>>
    /\ UNCHANGED notBatchVars

\* POST /api/barcode/generate-pdf-document: generatePrintReadyPDF, then pipe.
PostGeneratePdf ==
    /\ bPath = "ready"
    /\ \E natural \in NaturalSizes :
          LET out == generatePrintReady("pdf", bData, bConfig, bLayoutConfig,
                                        bRejected, natural)
          IN  /\ bImages' = out.images
              /\ bRenderFailed' = out.renderFailed
              /\ bLayoutFrom' = out.layoutFrom
              /\ bResponse' = printReadyResponse(out, "pdf", "Failed to generate PDF")
    /\ bPath' = "pdf"
    /\ UNCHANGED <<bData, bConfig, bLayoutConfig, bRejected>>
    /\ UNCHANGED notBatchVars

BatchNext == HandleGenerateClient \/ PostGenerate \/ PostGeneratePng \/ PostGeneratePdf

(***************************************************************************)
(* Grid layout planner and compositors                                     *)
(*                                                                         *)
(* generatePrintReadyPNG (pngGenerator) and generatePrintReadyPDF          *)
(* (pdfGenerator, of which the sources hold two variants) from the merge   *)
(* of the layout configuration on, given the rendered images.  Lengths in  *)
(* mm are integers in 1/9600 mm; PDF points are a linear scale of mm       *)
(* (mmToPoints), so the PDF sheet is kept in mm; the PNG sheet is kept in  *)
(* pixels, as rounded by mmToPixels.                                       *)
(***************************************************************************)
MaxCells == 3

LayoutFields == {"canvasWidthCm", "continuousMode", "marginsMm", "spacingMm",
                 "borderWidthMm", "borderColor"}
Sides == {"top", "bottom", "left", "right"}

\* A field the partial configuration does not carry.
Undefined == -1

\* getDefaultLayoutConfig of pngGenerator and of the first pdfGenerator;
\* canvasWidthCm in cm, the other lengths in hundredths of a mm.
getDefaultLayoutConfig ==
    [canvasWidthCm |-> 100, continuousMode |-> FALSE,
     marginsMm |-> [top |-> 1000, bottom |-> 1000, left |-> 1000, right |-> 1000],
     spacingMm |-> 500, borderWidthMm |-> 50, borderColor |-> "#FF0000"]

\* getDefaultLayoutConfig of the second pdfGenerator: borderWidthMm 0.25.
getDefaultLayoutConfigB == [getDefaultLayoutConfig EXCEPT !.borderWidthMm = 25]

\* The values a request overrides the defaults with.
OverrideValues ==
    [canvasWidthCm |-> 15, continuousMode |-> TRUE,
     marginsMm |-> [top |-> 500, bottom |-> 0, left |-> 4000, right |-> 1500],
     spacingMm |-> 200, borderWidthMm |-> 100, borderColor |-> "#000000"]

\* Partial<PrintLayoutConfig> carrying the fields in has, and within
\* marginsMm the sides in sides.
PartialConfig(has, sides) ==
    [has |-> has,
     canvasWidthCm |-> IF "canvasWidthCm" \in has THEN OverrideValues.canvasWidthCm
                       ELSE Undefined,
     continuousMode |-> "continuousMode" \in has /\ OverrideValues.continuousMode,
     spacingMm |-> IF "spacingMm" \in has THEN OverrideValues.spacingMm ELSE Undefined,
     borderWidthMm |-> IF "borderWidthMm" \in has THEN OverrideValues.borderWidthMm
                       ELSE Undefined,
     borderColor |-> IF "borderColor" \in has THEN OverrideValues.borderColor ELSE "",
     marginsMm |-> [has |-> sides,
                    top |-> IF "top" \in sides THEN OverrideValues.marginsMm.top
                            ELSE Undefined,
                    bottom |-> IF "bottom" \in sides THEN OverrideValues.marginsMm.bottom
                               ELSE Undefined,
                    left |-> IF "left" \in sides THEN OverrideValues.marginsMm.left
                             ELSE Undefined,
                    right |-> IF "right" \in sides THEN OverrideValues.marginsMm.right
                              ELSE Undefined]]

PartialConfigs ==
    UNION {{PartialConfig(has, sides) :
               sides \in IF "marginsMm" \in has THEN SUBSET Sides ELSE {{}}} :
           has \in SUBSET LayoutFields}

\* Mutation of mergeLayoutConfig: marginsMm is replaced as a whole.
mergeLayoutConfig_ShallowMargins(defaults, partial) ==
    LET pick(f) == IF f \in partial.has THEN partial[f] ELSE defaults[f]
    IN  [canvasWidthCm |-> pick("canvasWidthCm"),
         continuousMode |-> pick("continuousMode"),
         spacingMm |-> pick("spacingMm"),
         borderWidthMm |-> pick("borderWidthMm"),
         borderColor |-> pick("borderColor"),
         marginsMm |-> IF "marginsMm" \in partial.has
                       THEN [side \in Sides |-> partial.marginsMm[side]]
                       ELSE [side \in Sides |-> defaults.marginsMm[side]]]

\* {...getDefaultLayoutConfig(), ...layoutConfig,
\*  marginsMm: {...getDefaultLayoutConfig().marginsMm, ...layoutConfig?.marginsMm}}
mergeLayoutConfig(defaults, partial) ==
    LET pick(f) == IF f \in partial.has THEN partial[f] ELSE defaults[f]
    IN  [canvasWidthCm |-> pick("canvasWidthCm"),
         continuousMode |-> pick("continuousMode"),
         spacingMm |-> pick("spacingMm"),
         borderWidthMm |-> pick("borderWidthMm"),
         borderColor |-> pick("borderColor"),
         marginsMm |-> [side \in Sides |->
                           IF "marginsMm" \in partial.has /\ side \in partial.marginsMm.has
                           THEN partial.marginsMm[side]
                           ELSE defaults.marginsMm[side]]]

\* Rendered images: pixel size, and the width (tenths of a cm) configured for
\* the widest variant of the request they come from.
RenderedSizes ==
    {[width |-> 189, height |-> 113, configuredWidth |-> 50],
     [width |-> 151, height |-> 60, configuredWidth |-> 40],
     [width |-> 605, height |-> 38, configuredWidth |-> 160]}

RECURSIVE SizeListsOfLen(_)
SizeListsOfLen(n) ==
    IF n = 0 THEN {<<>>}
    ELSE {Append(l, b) : l \in SizeListsOfLen(n - 1), b \in RenderedSizes}

SizeLists(n) == UNION {SizeListsOfLen(k) : k \in 1..n}

MaxOf(S) == CHOOSE m \in S : \A x \in S : x <= m

\* Math.max(...barcodes.map((b) => b.width))
maxBarcodeWidthPx(barcodes) == MaxOf({barcodes[i].width : i \in 1..Len(barcodes)})

\* mmToPixels: Math.round((mm / 25.4) * 96).
mmToPixels(mm) == RoundDiv(mm, 2540)

\* Mutation of wrapsAfter: the row is wrapped in continuous mode too.
wrapsAfter_IgnoresContinuous(ctx, column) == column >= ctx.columnsPerRow

\* Mutation of wrapsAfter: the row is wrapped one cell late.
wrapsAfter_OneLate(ctx, column) == ~ctx.continuousMode /\ column > ctx.columnsPerRow

\* if (!continuousMode && currentColumn >= columnsPerRow): move to the next row.
wrapsAfter(ctx, column) == ~ctx.continuousMode /\ column >= ctx.columnsPerRow

\* The body of the placement loop of calculateLayoutWithActualSizes, from
\* barcode i on; ctx holds what the loop reads, st what it updates.
RECURSIVE placeBarcodes(_, _, _)
placeBarcodes(ctx, i, st) ==
    IF i > Len(ctx.barcodes) THEN st
    ELSE LET barcode == ctx.barcodes[i]
             barcodeWidthMm == pxToMm(barcode.width)
             barcodeHeightMm == pxToMm(barcode.height)
             cellHeightMm == barcodeHeightMm + ctx.internalPaddingMm * 2
                             + ctx.borderWidthMm * 2
             item == [x |-> st.currentX, y |-> st.currentY,
                      widthMm |-> barcodeWidthMm, heightMm |-> barcodeHeightMm,
                      isPrimary |-> ((i - 1) % 2 = 0) \/ ~ctx.dualMode]
             rowHeight == Max(st.currentRowHeight, cellHeightMm)
             column == st.currentColumn + 1
             wrap == wrapsAfter(ctx, column)
         IN  placeBarcodes(ctx, i + 1,
                 [layout |-> Append(st.layout, item),
                  currentX |-> IF wrap THEN ctx.left ELSE st.currentX + ctx.cellWidthMm,
                  currentY |-> IF wrap THEN st.currentY + rowHeight + ctx.spacingMm
                               ELSE st.currentY,
                  currentColumn |-> IF wrap THEN 0 ELSE column,
                  currentRowHeight |-> IF wrap THEN 0 ELSE rowHeight])

\* calculateLayoutWithActualSizes(barcodes, barcodeConfig, layoutConfig), with
\* the function's internalPaddingMm (0.25 mm in pngGenerator and the first
\* pdfGenerator, 2 mm in the second) as a parameter.  columnsPerRow is the
\* function's local, kept in the result to be observable.
layoutWithActualSizes(barcodes, dualMode, layoutConfig, paddingMm) ==
    LET borderMm == hundredthsOfMm(layoutConfig.borderWidthMm)
        spacing == hundredthsOfMm(layoutConfig.spacingMm)
        left == hundredthsOfMm(layoutConfig.marginsMm.left)
        right == hundredthsOfMm(layoutConfig.marginsMm.right)
        top == hundredthsOfMm(layoutConfig.marginsMm.top)
        bottom == hundredthsOfMm(layoutConfig.marginsMm.bottom)
        cellWidthMm == pxToMm(maxBarcodeWidthPx(barcodes)) + paddingMm * 2
                       + borderMm * 2 + spacing
        canvasWidthMm == IF layoutConfig.continuousMode
                         THEN left + right + cellWidthMm * Len(barcodes)
                         ELSE cmToMm(layoutConfig.canvasWidthCm)
        columnsPerRow == IF layoutConfig.continuousMode THEN Len(barcodes)
                         ELSE (canvasWidthMm - left - right) \div cellWidthMm
        ctx == [barcodes |-> barcodes, dualMode |-> dualMode,
                continuousMode |-> layoutConfig.continuousMode,
                internalPaddingMm |-> paddingMm, borderWidthMm |-> borderMm,
                spacingMm |-> spacing, left |-> left,
                cellWidthMm |-> cellWidthMm, columnsPerRow |-> columnsPerRow]
        end == placeBarcodes(ctx, 1,
                   [layout |-> <<>>, currentX |-> left, currentY |-> top,
                    currentColumn |-> 0, currentRowHeight |-> 0])
    IN  IF ~layoutConfig.continuousMode /\ columnsPerRow < 1
        THEN [kind |-> "threw", message |-> TooWide]
        ELSE [kind |-> "ok",
              canvasWidthMm |-> canvasWidthMm,
              canvasHeightMm |-> end.currentY + end.currentRowHeight + bottom,
              columnsPerRow |-> columnsPerRow,
              cellWidthMm |-> cellWidthMm,
              barcodes |-> end.layout]

\* calculateLayoutWithActualSizes of pngGenerator and the first pdfGenerator.
calculateLayoutWithActualSizes(barcodes, dualMode, layoutConfig) ==
    layoutWithActualSizes(barcodes, dualMode, layoutConfig, internalPaddingMm)

\* calculateLayoutWithActualSizes of the second pdfGenerator: 2 mm padding.
internalPaddingMmB == 19200
calculateLayoutWithActualSizesB(barcodes, dualMode, layoutConfig) ==
    layoutWithActualSizes(barcodes, dualMode, layoutConfig, internalPaddingMmB)

\* The BarcodeConfig fields calculateLayout reads, for images whose widest
\* configured variant is the primary one.
configuredFor(barcodes) ==
    [dimensions |-> [width |-> MaxOf({barcodes[i].configuredWidth : i \in 1..Len(barcodes)}),
                     unit |-> "cm"],
     dualMode |-> FALSE, dualDimensions |-> NoDimensions]

NoSheet == [kind |-> "none"]
FailedSheet(format, config, message) ==
    [kind |-> "threw", format |-> format, config |-> config, message |-> message]

\* generatePrintReadyPNG from the merge on: calculateLayout on the configured
\* size, calculateLayoutWithActualSizes, then one border overlay and one
\* image per cell, in pixels.
composePng(barcodes, dualMode, partial) ==
    LET config == mergeLayoutConfig(getDefaultLayoutConfig, partial)
        actualLayout == calculateLayoutWithActualSizes(barcodes, dualMode, config)
        borderWidthPx == mmToPixels(hundredthsOfMm(config.borderWidthMm))
        internalPaddingPx == mmToPixels(internalPaddingMm)
        cell(i) ==
            LET xPx == mmToPixels(actualLayout.barcodes[i].x)
                yPx == mmToPixels(actualLayout.barcodes[i].y)
            IN  [borderX |-> xPx, borderY |-> yPx,
                 borderWidth |-> barcodes[i].width + internalPaddingPx * 2
                                 + borderWidthPx * 2,
                 borderHeight |-> barcodes[i].height + internalPaddingPx * 2
                                  + borderWidthPx * 2,
                 imageX |-> xPx + borderWidthPx + internalPaddingPx,
                 imageY |-> yPx + borderWidthPx + internalPaddingPx,
                 imageWidth |-> barcodes[i].width,
                 imageHeight |-> barcodes[i].height]
    IN  IF configuredColumnsPerRow(configuredFor(barcodes), config) < 1
        THEN FailedSheet("png", config, TooWide)
        ELSE IF actualLayout.kind = "threw"
        THEN FailedSheet("png", config, actualLayout.message)
        ELSE [kind |-> "ok", format |-> "png", config |-> config,
              layout |-> actualLayout,
              canvasWidth |-> mmToPixels(actualLayout.canvasWidthMm),
              canvasHeight |-> mmToPixels(actualLayout.canvasHeightMm),
              padding |-> internalPaddingPx, border |-> borderWidthPx,
              cells |-> [i \in 1..Len(barcodes) |-> cell(i)]]

\* The drawing loop of generatePrintReadyPDF, in mm: a rectangle stroked with
\* lineWidth border on the path (x + border/2, y + border/2, content +
\* 2 * padding + border) covers x .. x + content + 2 * padding + 2 * border.
pdfSheet(barcodes, config, actualLayout, paddingMm) ==
    LET borderMm == hundredthsOfMm(config.borderWidthMm)
        halfBorder == borderMm \div 2
        cell(i) ==
            LET x == actualLayout.barcodes[i].x
                y == actualLayout.barcodes[i].y
                rectX == x + halfBorder
                rectY == y + halfBorder
                rectWidth == pxToMm(barcodes[i].width) + paddingMm * 2 + borderMm
                rectHeight == pxToMm(barcodes[i].height) + paddingMm * 2 + borderMm
            IN  [borderX |-> rectX - halfBorder, borderY |-> rectY - halfBorder,
                 borderWidth |-> rectWidth + borderMm,
                 borderHeight |-> rectHeight + borderMm,
                 imageX |-> x + borderMm + paddingMm,
                 imageY |-> y + borderMm + paddingMm,
                 imageWidth |-> pxToMm(barcodes[i].width),
                 imageHeight |-> pxToMm(barcodes[i].height)]
    IN  IF actualLayout.kind = "threw"
        THEN FailedSheet("pdf", config, actualLayout.message)
        ELSE [kind |-> "ok", format |-> "pdf", config |-> config,
              layout |-> actualLayout,
              canvasWidth |-> actualLayout.canvasWidthMm,
              canvasHeight |-> actualLayout.canvasHeightMm,
              padding |-> paddingMm, border |-> borderMm,
              cells |-> [i \in 1..Len(barcodes) |-> cell(i)]]

\* generatePrintReadyPDF of the first pdfGenerator, from the merge on.
composePdf(barcodes, dualMode, partial) ==
    LET config == mergeLayoutConfig(getDefaultLayoutConfig, partial)
    IN  pdfSheet(barcodes, config,
                 calculateLayoutWithActualSizes(barcodes, dualMode, config),
                 internalPaddingMm)

\* generatePrintReadyPDF of the second pdfGenerator, from the merge on.
composePdfB(barcodes, dualMode, partial) ==
    LET config == mergeLayoutConfig(getDefaultLayoutConfigB, partial)
    IN  pdfSheet(barcodes, config,
                 calculateLayoutWithActualSizesB(barcodes, dualMode, config),
                 internalPaddingMmB)

LayoutIdle ==
    /\ lBarcodes = <<>>
    /\ lDualMode = FALSE
    /\ lPartial = [has |-> {}]
    /\ lPng = NoSheet
    /\ lPdf = NoSheet

LayoutInit ==
    /\ lBarcodes \in SizeLists(MaxCells)
    /\ lDualMode \in BOOLEAN
    /\ lPartial \in PartialConfigs
    /\ lPng = NoSheet
    /\ lPdf = NoSheet

\* generatePrintReadyPNG(dataList, barcodeConfig, layoutConfig).
GeneratePrintReadyPNG ==
    /\ lBarcodes # <<>>
    /\ lPng = NoSheet
    /\ lPng' = composePng(lBarcodes, lDualMode, lPartial)
    /\ UNCHANGED <<lBarcodes, lDualMode, lPartial, lPdf>>
    /\ UNCHANGED notLayoutVars

\* generatePrintReadyPDF(dataList, barcodeConfig, layoutConfig), first variant.
GeneratePrintReadyPDF ==
    /\ lBarcodes # <<>>
    /\ lPdf = NoSheet
    /\ lPdf' = composePdf(lBarcodes, lDualMode, lPartial)
    /\ UNCHANGED <<lBarcodes, lDualMode, lPartial, lPng>>
    /\ UNCHANGED notLayoutVars

\* generatePrintReadyPDF(dataList, barcodeConfig, layoutConfig), second variant.
GeneratePrintReadyPDFB ==
    /\ lBarcodes # <<>>
    /\ lPdf = NoSheet
    /\ lPdf' = composePdfB(lBarcodes, lDualMode, lPartial)
    /\ UNCHANGED <<lBarcodes, lDualMode, lPartial, lPng>>
    /\ UNCHANGED notLayoutVars

LayoutNext == GeneratePrintReadyPNG \/ GeneratePrintReadyPDF \/ GeneratePrintReadyPDFB

(***************************************************************************)
(* Request validation: validateRequest over the backend request schemas   *)
(***************************************************************************)

\* The three validated endpoints and the schema each one is mounted with.
Endpoints == {"/generate", "/generate-print-ready", "/generate-print-ready-pdf"}

\* Request bodies around every bound of the schema. Width, height and font
\* size are in hundredths; data is its length and whether data[0] is "";
\* ignoreCount is Undefined when options.ignoreDigits is left out.
\* dualDimensions and dualFont, where present, are within their ranges.
MaxData == 1000
SchemaMinWidth == 10
SchemaMaxWidth == 5000
SchemaMinFontSize == 800
SchemaMaxFontSize == 4800

Requests ==
    [endpoint : Endpoints,
     dataLength : {0, 1, PrintReadyMinItems - 1, PrintReadyMinItems, MaxData, MaxData + 1},
     firstIsEmpty : BOOLEAN,
     type : {"code128", "pdf417"},
     width : {SchemaMinWidth - 1, SchemaMinWidth, SchemaMaxWidth, SchemaMaxWidth + 1},
     height : {SchemaMinWidth, SchemaMaxWidth + 1},
     unit : {"cm", "mm"},
     fontSize : {SchemaMinFontSize - 1, SchemaMinFontSize, SchemaMaxFontSize, SchemaMaxFontSize + 1},
     ignoreCount : {Undefined, 0, 1, MaxIgnoreCount, MaxIgnoreCount + 1},
     orientation : {"absent", "vertical", "diagonal"},
     dualMode : BOOLEAN,
     hasDualDimensions : BOOLEAN,
     hasDualFont : BOOLEAN]

barcodeTypeSchema == {"code128", "qr", "ean13", "ean8", "upca", "code39"}

\* z.array(z.string().min(1)).min(n).max(1000): the array's own issue is at
\* 'data', an empty element's at 'data.<index>'.
dataMin(endpoint) == IF endpoint = "/generate" THEN 1 ELSE PrintReadyMinItems

dataIssues(req) ==
    (IF req.dataLength < dataMin(req.endpoint) \/ req.dataLength > MaxData
     THEN {<<"data">>} ELSE {})
    \cup (IF req.dataLength >= 1 /\ req.firstIsEmpty THEN {<<"data", "0">>} ELSE {})

\* count: z.number().min(1).max(20), checked when ignoreDigits is present.
ignoreDigitsSchema(count) ==
    IF count /= Undefined /\ (count < 1 \/ count > MaxIgnoreCount)
    THEN {<<"configuration", "options", "ignoreDigits", "count">>} ELSE {}

inRange(v, lo, hi) == v >= lo /\ v <= hi

barcodeConfigurationSchema(req) ==
    (IF req.type \in barcodeTypeSchema THEN {} ELSE {<<"configuration", "type">>})
    \cup (IF inRange(req.width, SchemaMinWidth, SchemaMaxWidth)
          THEN {} ELSE {<<"configuration", "dimensions", "width">>})
    \cup (IF inRange(req.height, SchemaMinWidth, SchemaMaxWidth)
          THEN {} ELSE {<<"configuration", "dimensions", "height">>})
    \cup (IF req.unit \in {"cm", "inches"}
          THEN {} ELSE {<<"configuration", "dimensions", "unit">>})
    \cup (IF inRange(req.fontSize, SchemaMinFontSize, SchemaMaxFontSize)
          THEN {} ELSE {<<"configuration", "font", "size">>})
    \cup ignoreDigitsSchema(req.ignoreCount)
    \cup (IF req.dualMode \in BOOLEAN THEN {} ELSE {<<"configuration", "dualMode">>})
    \cup (IF req.orientation \in {"absent", "horizontal", "vertical"}
          THEN {} ELSE {<<"configuration", "orientation">>})

\* schema.safeParse(req.body): the paths of every issue.
safeParse(req) == dataIssues(req) \cup barcodeConfigurationSchema(req)

NoAnswer == [status |-> "none", error |-> "", details |-> {}]

\* validateRequest: 400 with one detail per issue, or next().
validateRequest(req) ==
    IF safeParse(req) /= {}
    THEN [status |-> "400", error |-> "Validation failed", details |-> safeParse(req)]
    ELSE [status |-> "next", error |-> "", details |-> {}]

ValidateIdle ==
    /\ vRequest = [endpoint |-> "none"]
    /\ vResponse = NoAnswer

ValidateInit ==
    /\ vRequest \in Requests
    /\ vResponse = NoAnswer

\* One request through the middleware of its route.
ValidateRequest ==
    /\ vResponse.status = "none"
    /\ vResponse' = validateRequest(vRequest)
    /\ UNCHANGED vRequest
    /\ UNCHANGED notValidateVars

ValidateNext == ValidateRequest

(***************************************************************************)
(* POST /generate from createZipStream on: the archive piped to res       *)
(***************************************************************************)

MaxEntries == 3

ZipFilenames == {"1.png", "2.png", "1_dual.png"}

\* What the archive emits for the appended barcodes and finalize(): one
\* chunk per entry, then the central directory.
archiveChunks(filenames) == filenames \o <<"central directory">>

EntryLists == UNION {[1..n -> ZipFilenames] : n \in 1..MaxEntries}

ZipIdle ==
    /\ zPending = <<>>
    /\ zBody = <<>>
    /\ zHeadersSent = FALSE
    /\ zStatus = "none"
    /\ zPc = "idle"

\* createZipStream has set its headers, piped the archive and finalized it;
\* nothing has gone out yet.
ZipInit ==
    /\ zPending \in {archiveChunks(f) : f \in EntryLists}
    /\ zBody = <<>>
    /\ zHeadersSent = FALSE
    /\ zStatus = "none"
    /\ zPc = "piping"

\* archive.pipe(res): a chunk of the archive is written to the response;
\* the first write sends the headers with status 200.
ArchiveData ==
    /\ zPc = "piping"
    /\ zPending /= <<>>
    /\ zBody' = Append(zBody, Head(zPending))
    /\ zPending' = Tail(zPending)
    /\ zHeadersSent' = TRUE
    /\ zStatus' = IF zHeadersSent THEN zStatus ELSE "200"
    /\ UNCHANGED zPc
    /\ UNCHANGED notZipVars

\* archive 'end': the promise resolves and the piped response ends.
ArchiveEnd ==
    /\ zPc = "piping"
    /\ zPending = <<>>
    /\ zPc' = "ended"
    /\ UNCHANGED <<zPending, zBody, zHeadersSent, zStatus>>
    /\ UNCHANGED notZipVars

\* archive 'error': the promise rejects and the route's catch answers 500
\* only if the headers have not been sent.
ArchiveError ==
    /\ zPc = "piping"
    /\ zPc' = "failed"
    /\ zStatus' = IF zHeadersSent THEN zStatus ELSE "500"
    /\ zHeadersSent' = TRUE
    /\ UNCHANGED <<zPending, zBody>>
    /\ UNCHANGED notZipVars

ZipNext == ArchiveData \/ ArchiveEnd \/ ArchiveError

(***************************************************************************)
(* The streamed-response consumer of the API client                       *)
(***************************************************************************)

MaxChunks == 3

Bytes == {"x", "y"}

\* A chunk reader.read() delivers: a non-empty run of bytes.
Chunks == UNION {[1..n -> Bytes] : n \in 1..2}

Bodies == UNION {[1..n -> Chunks] : n \in 0..MaxChunks}

\* The Uint8Array the chunks are copied into, one after the other.
RECURSIVE combine(_)
combine(chunks) ==
    IF chunks = <<>> THEN <<>> ELSE Head(chunks) \o combine(Tail(chunks))

\* parseInt(contentLength, 10), or 0 without the header.
contentLength(body, hasHeader) == IF hasHeader THEN Len(combine(body)) ELSE 0

\* What onProgress is called with: (receivedLength / total) * 100.
percent(receivedLength, total) ==
    [kind |-> "percent", num |-> receivedLength * 100, den |-> total]

StreamIdle ==
    /\ cKind = "none"
    /\ cTotal = 0
    /\ cIncoming = <<>>
    /\ cChunks = <<>>
    /\ cReceivedLength = 0
    /\ cProgress = <<>>
    /\ cPc = "idle"
    /\ cBlob = <<>>

\* response.ok, the reader taken, nothing read yet.
StreamInit ==
    /\ cKind \in {"zip", "png", "pdf"}
    /\ cIncoming \in Bodies
    /\ \E hasHeader \in BOOLEAN : cTotal = contentLength(cIncoming, hasHeader)
    /\ cChunks = <<>>
    /\ cReceivedLength = 0
    /\ cProgress = <<>>
    /\ cPc = "reading"
    /\ cBlob = <<>>

\* reader.read() returns a value: push it, count it, report it.
ReadChunk ==
    /\ cPc = "reading"
    /\ Len(cChunks) < Len(cIncoming)
    /\ LET value == cIncoming[Len(cChunks) + 1]
           received == cReceivedLength + Len(value)
       IN /\ cChunks' = Append(cChunks, value)
          /\ cReceivedLength' = received
          /\ cProgress' = IF cTotal > 0
                          THEN Append(cProgress, percent(received, cTotal))
                          ELSE cProgress
    /\ UNCHANGED <<cKind, cTotal, cIncoming, cPc, cBlob>>
    /\ UNCHANGED notStreamVars

\* reader.read() returns done: the chunks are combined into the blob.
ReadDone ==
    /\ cPc = "reading"
    /\ Len(cChunks) = Len(cIncoming)
    /\ cBlob' = combine(cChunks)
    /\ cPc' = "done"
    /\ UNCHANGED <<cKind, cTotal, cIncoming, cChunks, cReceivedLength, cProgress>>
    /\ UNCHANGED notStreamVars

StreamNext == ReadChunk \/ ReadDone

(***************************************************************************)
(* StepThree: the generation dialog                                       *)
(***************************************************************************)

\* Handler calls one session of the component starts.
MaxRuns == 2

\* What the onProgress callback is called with.
DownloadProgress == {50, 100}

\* A call of a handler: which one, and where it is (determining, generating,
\* done, failed).
Run(handler, pc) == [handler |-> handler, pc |-> pc]

\* The unmounted component: no dialog, and no handler to call.
DialogIdle ==
    /\ gIsGenerating = FALSE
    /\ gStatus = "off"
    /\ gProgress = 0
    /\ gRuns = <<>>
    /\ gTimers = 0

\* useState(false), useState(0), useState("idle").
DialogInit ==
    /\ gIsGenerating = FALSE
    /\ gStatus = "idle"
    /\ gProgress = 0
    /\ gRuns = <<>>
    /\ gTimers = 0

\* The buttons can be clicked while the modal dialog is not open.
CanClick == gStatus # "off" /\ ~gIsGenerating /\ Len(gRuns) < MaxRuns

\* handleGenerate up to its first await.
HandleGenerate ==
    /\ CanClick
    /\ gIsGenerating' = TRUE
    /\ gStatus' = "determining"
    /\ gProgress' = 0
    /\ gRuns' = Append(gRuns, Run("handleGenerate", "determining"))
    /\ UNCHANGED gTimers
    /\ UNCHANGED notDialogVars

\* handleGenerate: determineGenerationMode has resolved.
ModeDetermined ==
    /\ \E r \in 1..Len(gRuns) :
          /\ gRuns[r].pc = "determining"
          /\ gRuns' = [gRuns EXCEPT ![r].pc = "generating"]
    /\ gStatus' = "generating"
    /\ UNCHANGED <<gIsGenerating, gProgress, gTimers>>
    /\ UNCHANGED notDialogVars

\* handleGeneratePrintReady up to its await.
HandleGeneratePrintReady ==
    /\ CanClick
    /\ gIsGenerating' = TRUE
    /\ gStatus' = "generating"
    /\ gProgress' = 0
    /\ gRuns' = Append(gRuns, Run("handleGeneratePrintReady", "generating"))
    /\ UNCHANGED gTimers
    /\ UNCHANGED notDialogVars

\* handleGeneratePrintReadyPDF up to its await.
HandleGeneratePrintReadyPDF ==
    /\ CanClick
    /\ gIsGenerating' = TRUE
    /\ gStatus' = "generating"
    /\ gProgress' = 0
    /\ gRuns' = Append(gRuns, Run("handleGeneratePrintReadyPDF", "generating"))
    /\ UNCHANGED gTimers
    /\ UNCHANGED notDialogVars

\* The onProgress callback of a call in flight: setProgress(Math.min(95, p)).
DownloadProgressed ==
    /\ \E r \in 1..Len(gRuns) : gRuns[r].pc = "generating"
    /\ \E downloadProgress \in DownloadProgress :
          gProgress' = Min(95, downloadProgress)
    /\ UNCHANGED <<gIsGenerating, gStatus, gRuns, gTimers>>
    /\ UNCHANGED notDialogVars

\* handleGenerate, client branch: generateBarcodes has resolved.
ClientGenerated ==
    /\ \E r \in 1..Len(gRuns) :
          gRuns[r] = Run("handleGenerate", "generating")
    /\ gProgress' = 75
    /\ UNCHANGED <<gIsGenerating, gStatus, gRuns, gTimers>>
    /\ UNCHANGED notDialogVars

\* The awaited generation resolves: setProgress(100), setStatus("success"),
\* and the auto-close timer is set.
GenerationResolved ==
    /\ \E r \in 1..Len(gRuns) :
          /\ gRuns[r].pc = "generating"
          /\ gRuns' = [gRuns EXCEPT ![r].pc = "done"]
    /\ gProgress' = 100
    /\ gStatus' = "success"
    /\ gTimers' = gTimers + 1
    /\ UNCHANGED gIsGenerating
    /\ UNCHANGED notDialogVars

\* The awaited call rejects: the catch block sets status error.
GenerationRejected ==
    /\ \E r \in 1..Len(gRuns) :
          /\ gRuns[r].pc \in {"determining", "generating"}
          /\ gRuns' = [gRuns EXCEPT ![r].pc = "failed"]
    /\ gStatus' = "error"
    /\ UNCHANGED <<gIsGenerating, gProgress, gTimers>>
    /\ UNCHANGED notDialogVars

\* The 2-second timer of a finished call fires.
AutoClose ==
    /\ gTimers > 0
    /\ gTimers' = gTimers - 1
    /\ gIsGenerating' = FALSE
    /\ gStatus' = "idle"
    /\ gProgress' = 0
    /\ UNCHANGED gRuns
    /\ UNCHANGED notDialogVars

\* closeModal: the Dialog's onOpenChange (Escape, click outside, the close
\* button) or the Close button of the error view.
CloseModal ==
    /\ gIsGenerating
    /\ gIsGenerating' = FALSE
    /\ gStatus' = "idle"
    /\ gProgress' = 0
    /\ UNCHANGED <<gRuns, gTimers>>
    /\ UNCHANGED notDialogVars

DialogNext ==
    \/ HandleGenerate
    \/ ModeDetermined
    \/ HandleGeneratePrintReady
    \/ HandleGeneratePrintReadyPDF
    \/ DownloadProgressed
    \/ ClientGenerated
    \/ GenerationResolved
    \/ GenerationRejected
    \/ AutoClose
    \/ CloseModal

(***************************************************************************)
(* Specifications: one per component, the other components idle          *)
(***************************************************************************)
\* Every component other than the one a specification runs is idle.
CoreIdle == RouterIdle /\ ProcessIdle /\ RenderIdle /\ BatchIdle /\ LayoutIdle
BoundaryIdle == ValidateIdle /\ ZipIdle /\ StreamIdle /\ DialogIdle

InitProcess ==
    ProcessInit /\ RouterIdle /\ RenderIdle /\ BatchIdle /\ LayoutIdle /\ BoundaryIdle

SpecProcess == InitProcess /\ [][ProcessNext]_vars

InitRender ==
    RenderInit /\ RouterIdle /\ ProcessIdle /\ BatchIdle /\ LayoutIdle /\ BoundaryIdle

SpecRender == InitRender /\ [][RenderNext]_vars

InitRouter ==
    RouterInit /\ ProcessIdle /\ RenderIdle /\ BatchIdle /\ LayoutIdle /\ BoundaryIdle

SpecRouter == InitRouter /\ [][RouterNext]_vars

InitBatch ==
    BatchInit /\ RouterIdle /\ ProcessIdle /\ RenderIdle /\ LayoutIdle /\ BoundaryIdle

SpecBatch == InitBatch /\ [][BatchNext]_vars

InitLayout ==
    LayoutInit /\ RouterIdle /\ ProcessIdle /\ RenderIdle /\ BatchIdle /\ BoundaryIdle

SpecLayout == InitLayout /\ [][LayoutNext]_vars

InitValidate == ValidateInit /\ CoreIdle /\ ZipIdle /\ StreamIdle /\ DialogIdle

SpecValidate == InitValidate /\ [][ValidateNext]_vars

InitZip == ZipInit /\ CoreIdle /\ ValidateIdle /\ StreamIdle /\ DialogIdle

SpecZip == InitZip /\ [][ZipNext]_vars

InitStream == StreamInit /\ CoreIdle /\ ValidateIdle /\ ZipIdle /\ DialogIdle

SpecStream == InitStream /\ [][StreamNext]_vars

InitDialog == DialogInit /\ CoreIdle /\ ValidateIdle /\ ZipIdle /\ StreamIdle

SpecDialog == InitDialog /\ [][DialogNext]_vars

(***************************************************************************)
(* Router claims                                                           *)
(***************************************************************************)
FallbackReasons ==
    {"API unavailable. Falling back to client-side generation.",
     "API unavailable. Using client-side generation."}

ProbeFailed == fetchOutcome \in {"not_ok", "network_error", "timeout"}

C3_ClaimedFactor(configuration) ==
    LET sum == configuration.width + configuration.height
        large == IF configuration.unit = "cm" THEN sum > 200
                 ELSE sum * 254 > 20000
        f1 == IF configuration.type = "qr" THEN 1500 ELSE 1000
        f2 == IF configuration.dualMode THEN f1 * 2 ELSE f1
        f3 == IF large THEN (f2 * 12) \div 10 ELSE f2
        f4 == IF configuration.stretch THEN (f3 * 11) \div 10 ELSE f3
    IN  Max(1000, f4)

\* C3 (as claimed): the factor behind every returned decision is the product
\* of 1.5 (qr), 2 (dualMode), 1.2 (average dimension above 10 cm-equivalent)
\* and 1.1 (stretch), so the returned threshold is floor(20 / that factor).
C3_FactorUsesCmEquivalent ==
    rPc = "done" =>
        /\ calculateComplexityFactor(rConfig) = C3_ClaimedFactor(rConfig)
        /\ decision.threshold = (20 * 1000) \div C3_ClaimedFactor(rConfig)

\* C4: a failing probe (network error, timeout, non-OK response) is never
\* fatal: checkAPIHealth returns false without throwing, the call is never
\* rejected, and the decision it returns is mode=client.
C4_ProbeFailureFallsBackToClient ==
    /\ rPc # "rejected"
    /\ ProbeFailed =>
          /\ ~health.threw
          /\ health.value = FALSE
          /\ rPc \in {"resumed", "done"}
          /\ rPc = "done" => decision.mode = "client"

\* C4 witness: the probe timed out and the call returned a client decision.
C4_Witness ==
    /\ fetchOutcome = "timeout"
    /\ rPc = "done"
    /\ decision.mode = "client"

\* C5 (as claimed, from the README): with the server reachable, fewer than
\* 20 items are generated client-side and 20 or more server-side, for
\* every configuration.
C5_ReadmeThresholdIsTwenty ==
    (rPc = "done" /\ ~ProbeFailed) =>
        (decision.mode = "client" <=> dataCount < 20)

(***************************************************************************)
(* processData claims                                                      *)
(***************************************************************************)
\* The value C9 states: the value without its first (start) or last (end)
\* `count` characters, empty when the value is shorter; unchanged when
\* ignoreDigits is absent or disabled.
C9_Claimed(data, ignoreDigits) ==
    IF ~ignoreDigits.present \/ ~ignoreDigits.enabled
    THEN data
    ELSE LET n == Len(data)
             k == Min(ignoreDigits.count, n)
         IN  IF ignoreDigits.position = "start"
             THEN SubSeq(data, k + 1, n)
             ELSE SubSeq(data, 1, n - k)

\* C9 (as claimed): processData removes exactly `count` characters (all of
\* them when the value is shorter) from the chosen side for every count in
\* 0..20, count = 0 leaving the value unchanged for both positions, and
\* returns the value unchanged when ignoreDigits is absent or disabled.
C9_RemovesExactlyCountCharacters ==
    /\ pClient.set => pClient.value = C9_Claimed(pData, pIgnore)
    /\ pServer.set => pServer.value = C9_Claimed(pData, pIgnore)

(***************************************************************************)
(* Single-item renderer claims                                             *)
(***************************************************************************)
\* The font size C10 states, in tenths of a px: max(configuredSize * 0.7, 6)
\* when heightCm < 1 and autoAdjustFont is not false, else the configured
\* size.
C10_ClaimedFontSize(options) ==
    LET heightCmThousandths == IF options.unit = "cm" THEN options.height * 100
                               ELSE options.height * 254
    IN  IF heightCmThousandths < 1000 /\ options.autoAdjustFont # "false"
        THEN Max(options.fontSize * 7, 60)
        ELSE options.fontSize * 10

\* C10 (as claimed): in every renderer, client generate1DBarcode and server
\* generateBarcode, the font size handed to the symbology collaborator is
\* max(configuredSize * 0.7, 6) for small labels with autoAdjustFont not
\* false, and exactly the configured size otherwise.
C10_SmallLabelFontPolicy ==
    /\ sCall.collaborator = "JsBarcode" => sCall.fontSize = C10_ClaimedFontSize(sOptions)
    /\ sCall.collaborator = "bwip-js" => sCall.textsize = C10_ClaimedFontSize(sOptions)

\* An image a 1D renderer produced (the client's QR branch returns a
\* placeholder without pixels).
RenderedImage == sImage.kind = "image" /\ (sPc = "server" \/ sOptions.type # "qr")

\* C11 (as claimed): for orientation vertical the final image is
\* toPixels(configured width) wide and toPixels(configured height) high at
\* 96 DPI, in the client and in the server renderer, and the size
\* convertConfigToPixels assumes for a vertical image is the size rendered.
C11_VerticalKeepsConfiguredSize ==
    (RenderedImage /\ sOptions.orientation = "vertical") =>
        /\ sImage.width = convertToPixels(sOptions.width, sOptions.unit)
        /\ sImage.height = convertToPixels(sOptions.height, sOptions.unit)
        /\ convertConfigToPixels(sOptions.width, sOptions.height, sOptions.unit, TRUE)
              = [width |-> sImage.width, height |-> sImage.height]

\* C12 (as claimed): for orientation horizontal and any natural size of the
\* symbol, the rendered image has exactly the target pixel size, with
\* stretch and without.
C12_HorizontalHasTargetSize ==
    (RenderedImage /\ sOptions.orientation = "horizontal") =>
        /\ sImage.width = convertToPixels(sOptions.width, sOptions.unit)
        /\ sImage.height = convertToPixels(sOptions.height, sOptions.unit)

\* The small-label adjustment applies: heightCm < 1 and autoAdjustFont is
\* not false.
SmallAndAdjusted(options) == isSmallBarcode(options) /\ shouldAutoAdjust(options)

\* C21 (as claimed): the 288-DPI render with its downscale and the 6 px text
\* margin are applied exactly when heightCm < 1 and autoAdjustFont is not
\* false; otherwise the renderer works at 96 DPI with a 16 px text
\* margin/offset.
C21_HighDpiOnlyWhenSmallAndAdjusted ==
    /\ sCall.collaborator = "JsBarcode" =>
           /\ sCall.dpi = (IF SmallAndAdjusted(sOptions) THEN 288 ELSE 96)
           /\ sCall.textMargin = (IF SmallAndAdjusted(sOptions) THEN 6 ELSE 16)
    /\ sCall.collaborator = "bwip-js" =>
           sCall.textyoffset = (IF SmallAndAdjusted(sOptions) THEN 6 ELSE 16)

(***************************************************************************)
(* Batch renderers: claims C6, C7, C8 (specification SpecBatch)            *)
(***************************************************************************)
\* The (data, variant) pairs of the images a finished batch emitted.
EmittedOrder == [i \in 1..Len(bImages) |-> <<bImages[i].data, bImages[i].variant>>]

\* The emission the dual-mode contract describes for a data list.
C6_ClaimedOrder(dataList, dualMode) ==
    IF dualMode
    THEN [i \in 1..(2 * Len(dataList)) |->
             <<dataList[(i + 1) \div 2], IF i % 2 = 1 THEN "primary" ELSE "secondary">>]
    ELSE [i \in 1..Len(dataList) |-> <<dataList[i], "primary">>]

BatchSucceeded == bResponse.status \in {"200", "success"}

\* C6: every batch renderer that completes emits, when dualMode is true,
\* exactly two images per data item in the order primary(item1),
\* secondary(item1), primary(item2), ..., and when dualMode is false exactly
\* one image per item in input order.
C6_DualModeEmitsTwoPerItem ==
    (bPath \in {"client", "zip", "png", "pdf"} /\ BatchSucceeded)
        => EmittedOrder = C6_ClaimedOrder(bData, bConfig.dualMode)

\* The renders of item i that the client path attempts and the library rejects.
ClientItemFailed(i) ==
    /\ bConfig.type # "qr"
    /\ \/ <<bData[i], "primary">> \in bRejected
       \/ hasDual(bConfig) /\ <<bData[i], "secondary">> \in bRejected

\* C7: on the client path an item whose rendering fails is reported to the
\* caller per item: the raised error names the item, or the returned result
\* carries an entry for it that is marked as failed.
C7_ClientReportsFailedItem ==
    bPath = "client" =>
        \A i \in 1..Len(bData) :
            ClientItemFailed(i) =>
                \/ bResponse.status = "error" /\ bResponse.message.data = bData[i]
                \/ \E j \in 1..Len(bImages) :
                      bImages[j].data = bData[i] /\ bImages[j].image.kind # "image"

\* The data value of the first render, in loop order, that the library
\* rejects; <<>> when every render of the request succeeds.
RECURSIVE FirstFailedRender(_, _, _)
FirstFailedRender(dataList, withDual, rejected) ==
    IF dataList = <<>> THEN <<>>
    ELSE IF <<Head(dataList), "primary">> \in rejected THEN Head(dataList)
    ELSE IF withDual /\ <<Head(dataList), "secondary">> \in rejected THEN Head(dataList)
    ELSE FirstFailedRender(Tail(dataList), withDual, rejected)

\* A validated print-ready request whose render loop was entered.
PrintReadyRendered ==
    /\ bPath \in {"png", "pdf"}
    /\ Len(bData) >= PrintReadyMinItems
    /\ ~(bPath = "png" /\ configuredColumnsPerRow(bConfig, bLayoutConfig) < 1)

\* C8: on the print-ready PNG and PDF routes, when the render of any item
\* (primary or secondary) fails, the whole operation aborts: no image is
\* kept, no layout is computed from the rendered set, nothing is sent, and
\* the response is HTTP 500 with a message naming the offending data value.
\* A 200 response therefore carries the complete set.
C8_PrintReadyAbortsOnFailedItem ==
    PrintReadyRendered =>
        LET failedData == FirstFailedRender(bData, hasDual(bConfig), bRejected)
        IN  /\ failedData # <<>> =>
                 /\ bResponse.status = "500"
                 /\ bResponse.sent = "none"
                 /\ bResponse.message.text = "Failed to generate barcode for data: "
                 /\ bResponse.message.data = failedData
                 /\ bRenderFailed = failedData
                 /\ bImages = <<>>
                 /\ bLayoutFrom = -1
            /\ bResponse.status = "200" =>
                 /\ failedData = <<>>
                 /\ bLayoutFrom = Len(bImages)
                 /\ Len(bImages) = (IF hasDual(bConfig) THEN 2 ELSE 1) * Len(bData)

\* C8 witness: a print-ready request in which earlier items rendered and a
\* later item's secondary render alone failed, answered with the 500.
C8_Witness ==
    /\ PrintReadyRendered
    /\ bResponse.status = "500"
    /\ bRenderFailed # <<>>
    /\ bRenderFailed # bData[1]
    /\ <<bRenderFailed, "primary">> \notin bRejected
    /\ <<bRenderFailed, "secondary">> \in bRejected

\* The options the path taken renders the secondary variant with.
SecondaryOptionsUsed ==
    CASE bPath = "client" -> clientOptions(clientDualConfig(bConfig))
      [] bPath = "zip" -> zipDualOptions(bConfig)
      [] OTHER -> printDualOptions(bConfig)

\* The secondary images the path taken emitted.
SecondaryEmitted == {i \in 1..Len(bImages) : bImages[i].variant = "secondary"}

\* C25 (as claimed): in every batch path the secondary variant of an item is
\* rendered from the item's data value with dualDimensions and with
\* dualFont's size and autoAdjustFont when dualFont is present (the primary
\* font only when it is absent), once per item.
C25_SecondaryUsesDualFont ==
    SecondaryEmitted # {} =>
        LET used == SecondaryOptionsUsed
            font == IF bConfig.dualFont.present THEN bConfig.dualFont ELSE bConfig.font
        IN  /\ used.width = bConfig.dualDimensions.width
            /\ used.height = bConfig.dualDimensions.height
            /\ used.unit = bConfig.dualDimensions.unit
            /\ used.fontSize = font.size
            /\ used.autoAdjustFont = font.autoAdjustFont
            /\ Cardinality(SecondaryEmitted) <= Len(bData)
            /\ \A i \in SecondaryEmitted :
                  /\ \E n \in 1..Len(bData) : bImages[i].data = bData[n]
                  /\ bImages[i].image.filename.width = bConfig.dualDimensions.width

\* The layout calculateLayoutWithActualSizes plans for the images a
\* print-ready request rendered.
PlannedLayout ==
    calculateLayoutWithActualSizes(
        [i \in 1..Len(bImages) |->
            [width |-> bImages[i].image.width, height |-> bImages[i].image.height]],
        bConfig.dualMode, bLayoutConfig)

\* C26 (as claimed): in the layout of a print-ready request, the cell at
\* index i has isPrimary = true if and only if the image at index i of the
\* rendered sequence is a primary-variant image, for every configuration
\* validation accepts (dualMode = true without dualDimensions included).
C26_IsPrimaryMarksPrimaryImages ==
    (bPath \in {"png", "pdf"} /\ bResponse.status = "200") =>
        /\ PlannedLayout.kind = "ok"
        /\ Len(PlannedLayout.barcodes) = Len(bImages)
        /\ \A i \in 1..Len(bImages) :
              PlannedLayout.barcodes[i].isPrimary = (bImages[i].variant = "primary")

\* The entry names handed to the ZIP writer, in order.
EntryNames == [i \in 1..Len(bImages) |-> bImages[i].image.filename]

\* The entries of the delivered ZIP: JSZip (client) keeps one entry per
\* name, the later file replacing the earlier; archiver (server) appends
\* one entry per call.
ZipEntryCount ==
    IF bPath = "client" THEN Cardinality({EntryNames[i] : i \in 1..Len(bImages)})
    ELSE Len(bImages)

\* C28 (as claimed): the delivered ZIP holds exactly one entry per rendered
\* image, with pairwise distinct entry names, for every data list
\* (duplicate values included), on the client and on the server path.
C28_ZipHasOneDistinctEntryPerImage ==
    (bPath \in {"client", "zip"} /\ bResponse.sent = "zip") =>
        /\ ZipEntryCount = Len(bImages)
        /\ \A i, j \in 1..Len(bImages) : i # j => EntryNames[i] # EntryNames[j]

\* C30 (as claimed): a type = qr batch generated on the client path
\* completes successfully, and generateBarcodes hands the ZIP writer no
\* entry with an empty data URL.
C30_ClientQrBatchSucceeds ==
    (bPath = "client" /\ bConfig.type = "qr") =>
        /\ bResponse.status = "success"
        /\ bResponse.sent = "zip"
        /\ \A i \in 1..Len(bImages) : bImages[i].image.dataUrl # ""

(***************************************************************************)
(* Grid layout planner: claims C13, C14 (specification SpecLayout)         *)
(***************************************************************************)
\* The sheets composed so far.
Sheets == {sheet \in {lPng, lPdf} : sheet.kind = "ok"}

\* The internal padding, in mm, of the generator that composed a sheet.
SheetPaddingMm(sheet) == IF sheet.format = "png" THEN internalPaddingMm ELSE sheet.padding

\* The height of the cell of image j on a sheet: content, padding and border.
CellHeightMm(sheet, j) ==
    pxToMm(lBarcodes[j].height) + 2 * SheetPaddingMm(sheet)
    + 2 * hundredthsOfMm(sheet.config.borderWidthMm)

\* The width of every cell of a sheet: widest content, padding, border, spacing.
CellWidthMm(sheet) ==
    pxToMm(MaxOf({lBarcodes[j].width : j \in 1..Len(lBarcodes)}))
    + 2 * SheetPaddingMm(sheet) + 2 * hundredthsOfMm(sheet.config.borderWidthMm)
    + hundredthsOfMm(sheet.config.spacingMm)

\* C13: with continuousMode = true, for every item count N >= 1,
\* columnsPerRow is N, every cell has y = top margin and the x of the cells
\* strictly increases (no wrap), and the canvas height is top margin +
\* height of the tallest cell + bottom margin.
C13_ContinuousModeIsOneRow ==
    \A sheet \in Sheets :
        sheet.config.continuousMode =>
            LET cells == sheet.layout.barcodes
                N == Len(lBarcodes)
            IN  /\ sheet.layout.columnsPerRow = N
                /\ Len(cells) = N
                /\ \A i \in 1..N : cells[i].y = hundredthsOfMm(sheet.config.marginsMm.top)
                /\ \A i \in 1..(N - 1) : cells[i].x < cells[i + 1].x
                /\ sheet.layout.canvasHeightMm =
                      hundredthsOfMm(sheet.config.marginsMm.top)
                      + MaxOf({CellHeightMm(sheet, j) : j \in 1..N})
                      + hundredthsOfMm(sheet.config.marginsMm.bottom)

\* C13 witness: a continuous sheet of three images of different heights.
C13_Witness ==
    \E sheet \in Sheets :
        /\ sheet.config.continuousMode
        /\ Len(lBarcodes) = 3
        /\ lBarcodes[1].height < lBarcodes[2].height
        /\ lBarcodes[3].height < lBarcodes[1].height

\* The tallest cell of row r (zero-based) of a sheet with k columns.
RowHeightMm(sheet, r, k) ==
    MaxOf({CellHeightMm(sheet, j) : j \in {n \in 1..Len(lBarcodes) : (n - 1) \div k = r}})

\* Top margin plus, for every row before row r, its tallest cell and the spacing.
RECURSIVE RowTopMm(_, _, _)
RowTopMm(sheet, r, k) ==
    IF r = 0 THEN hundredthsOfMm(sheet.config.marginsMm.top)
    ELSE RowTopMm(sheet, r - 1, k) + RowHeightMm(sheet, r - 1, k)
         + hundredthsOfMm(sheet.config.spacingMm)

\* C14: in paged mode with columnsPerRow = k, the image at zero-based index i
\* of the interleaved sequence is in row i div k and column i mod k:
\* x = left margin + (i mod k) * cellWidth, y = top margin + the sum over the
\* earlier rows of (tallest cell height + spacing); in dual mode the cells
\* alternate primary, secondary.
C14_PagedModeIsRowMajor ==
    \A sheet \in Sheets :
        ~sheet.config.continuousMode =>
            LET cells == sheet.layout.barcodes
                k == sheet.layout.columnsPerRow
            IN  /\ k = (cmToMm(sheet.config.canvasWidthCm)
                        - hundredthsOfMm(sheet.config.marginsMm.left)
                        - hundredthsOfMm(sheet.config.marginsMm.right))
                       \div CellWidthMm(sheet)
                /\ Len(cells) = Len(lBarcodes)
                /\ \A n \in 1..Len(cells) :
                      /\ cells[n].x = hundredthsOfMm(sheet.config.marginsMm.left)
                                      + ((n - 1) % k) * CellWidthMm(sheet)
                      /\ cells[n].y = RowTopMm(sheet, (n - 1) \div k, k)
                      /\ cells[n].widthMm = pxToMm(lBarcodes[n].width)
                      /\ cells[n].heightMm = pxToMm(lBarcodes[n].height)
                      /\ cells[n].isPrimary = (~lDualMode \/ n % 2 = 1)

\* C14 witness: a paged sheet of two columns whose third image starts the
\* second row, below a first row of two cells of different heights.
C14_Witness ==
    \E sheet \in Sheets :
        /\ ~sheet.config.continuousMode
        /\ sheet.layout.columnsPerRow = 2
        /\ Len(lBarcodes) = 3
        /\ lBarcodes[1].height # lBarcodes[2].height
        /\ lDualMode
        /\ sheet.layout.barcodes[3].y > sheet.layout.barcodes[1].y

\* C22 (as claimed): in paged mode, for every item count N and columnsPerRow
\* k (N an exact multiple of k included), the canvas height is the y of the
\* last occupied row + that row's tallest cell height + the bottom margin,
\* with no additional spacing term.
C22_CanvasHeightEndsAtLastRow ==
    \A sheet \in Sheets :
        ~sheet.config.continuousMode =>
            LET k == sheet.layout.columnsPerRow
                lastRow == (Len(lBarcodes) - 1) \div k
            IN  sheet.layout.canvasHeightMm =
                    RowTopMm(sheet, lastRow, k) + RowHeightMm(sheet, lastRow, k)
                    + hundredthsOfMm(sheet.config.marginsMm.bottom)

(***************************************************************************)
(* Infeasible layout: claim C15 (specification SpecBatch)                  *)
(***************************************************************************)
\* A print-ready request answered with the layout-infeasible error.
LayoutInfeasibleAnswered ==
    bPath \in {"png", "pdf"} /\ bResponse.message.text = TooWide.text

\* C15 (as claimed): the layout-infeasible error is raised in paged mode only
\* (there columnsPerRow < 1), it reports the offending width, and no canvas
\* or document is produced.
C15_InfeasibleLayoutReportsWidth ==
    LayoutInfeasibleAnswered =>
        /\ ~bLayoutConfig.continuousMode
        /\ bResponse.status = "500"
        /\ bResponse.sent = "none"
        /\ bResponse.message.data # <<>>

(***************************************************************************)
(* Layout configuration merge: claim C16 (specification SpecLayout)        *)
(***************************************************************************)
\* The outputs produced so far, finished sheets and rejections alike.
Outputs == {sheet \in {lPng, lPdf} : sheet.kind # "none"}

\* C16: the effective PrintLayoutConfig of generatePrintReadyPNG/PDF equals,
\* for every subset of supplied fields, the supplied value for a supplied
\* field and the default (canvasWidthCm 100, continuousMode false, spacingMm
\* 5, borderColor #FF0000, margins 10 each) for an omitted one; the four
\* margin sides are merged one by one.
C16_PartialOverridesMergeOverDefaults ==
    \A sheet \in Outputs :
        LET config == sheet.config
            supplied(f) == f \in lPartial.has
        IN  /\ config.canvasWidthCm =
                  (IF supplied("canvasWidthCm") THEN lPartial.canvasWidthCm ELSE 100)
            /\ config.continuousMode =
                  (IF supplied("continuousMode") THEN lPartial.continuousMode ELSE FALSE)
            /\ config.spacingMm =
                  (IF supplied("spacingMm") THEN lPartial.spacingMm ELSE 500)
            /\ config.borderColor =
                  (IF supplied("borderColor") THEN lPartial.borderColor ELSE "#FF0000")
            /\ supplied("borderWidthMm") => config.borderWidthMm = lPartial.borderWidthMm
            /\ \A side \in Sides :
                  config.marginsMm[side] =
                      (IF supplied("marginsMm") /\ side \in lPartial.marginsMm.has
                       THEN lPartial.marginsMm[side] ELSE 1000)

\* C16 witness: a request overriding only marginsMm.top and spacingMm, whose
\* sheet keeps the other three margins and the canvas width at the defaults.
C16_Witness ==
    \E sheet \in Outputs :
        /\ lPartial.has = {"marginsMm", "spacingMm"}
        /\ lPartial.marginsMm.has = {"top"}
        /\ sheet.config.marginsMm.top = 500
        /\ sheet.config.marginsMm.left = 1000
        /\ sheet.config.canvasWidthCm = 100

(***************************************************************************)
(* Raster and vector compositor: claim C19 (specification SpecLayout)      *)
(***************************************************************************)
\* The border of every cell of a sheet spans content + 2 * padding +
\* 2 * borderWidth, and the image is inset by borderWidth + padding, in the
\* sheet's own unit.
CellGeometryHolds(sheet) ==
    \A i \in 1..Len(sheet.cells) :
        LET cell == sheet.cells[i]
        IN  /\ cell.borderWidth = cell.imageWidth + 2 * sheet.padding + 2 * sheet.border
            /\ cell.borderHeight = cell.imageHeight + 2 * sheet.padding + 2 * sheet.border
            /\ cell.imageX = cell.borderX + sheet.border + sheet.padding
            /\ cell.imageY = cell.borderY + sheet.border + sheet.padding

\* The planned geometry of two sheets, in mm, is the same.
SameLayoutMm(a, b) ==
    /\ a.layout.canvasWidthMm = b.layout.canvasWidthMm
    /\ a.layout.canvasHeightMm = b.layout.canvasHeightMm
    /\ Len(a.layout.barcodes) = Len(b.layout.barcodes)
    /\ \A i \in 1..Len(a.layout.barcodes) :
          /\ a.layout.barcodes[i].x = b.layout.barcodes[i].x
          /\ a.layout.barcodes[i].y = b.layout.barcodes[i].y

\* C19 (as claimed): for the same images, BarcodeConfig and partial
\* layoutConfig, generatePrintReadyPNG and generatePrintReadyPDF use the
\* same geometry in mm: the same canvas width and height, the same cell
\* origin for every index, a border spanning content + 2 * padding +
\* 2 * borderWidth and the image inset by borderWidth + padding.
C19_RasterAndVectorShareGeometry ==
    (lPng.kind # "none" /\ lPdf.kind # "none") =>
        /\ lPng.kind = lPdf.kind
        /\ lPng.kind = "ok" =>
              /\ SameLayoutMm(lPng, lPdf)
              /\ CellGeometryHolds(lPng)
              /\ CellGeometryHolds(lPdf)


(***************************************************************************)
(* Continuous mode and the canvas width: claim C23 (specification          *)
(* SpecLayout)                                                             *)
(***************************************************************************)
\* The partial layoutConfig of the request with only canvasWidthCm changed:
\* supplied where it was left out, left out where it was supplied.
OtherCanvasWidth(partial) ==
    IF "canvasWidthCm" \in partial.has
    THEN [partial EXCEPT !.has = @ \ {"canvasWidthCm"}, !.canvasWidthCm = Undefined]
    ELSE [partial EXCEPT !.has = @ \cup {"canvasWidthCm"},
                         !.canvasWidthCm = OverrideValues.canvasWidthCm]

\* What the generator that produced a sheet produces for another partial
\* layoutConfig.
Regenerated(sheet, partial) ==
    IF sheet.format = "png" THEN composePng(lBarcodes, lDualMode, partial)
    ELSE IF sheet.kind = "ok" /\ sheet.padding = internalPaddingMmB
    THEN composePdfB(lBarcodes, lDualMode, partial)
    ELSE composePdf(lBarcodes, lDualMode, partial)

\* C23 (as claimed): with continuousMode = true, generation never fails with
\* 'too wide to fit on canvas', and a request that differs only in
\* canvasWidthCm has the same outcome: same success or failure, same layout,
\* same canvas size, on the PNG and on the PDF path.
C23_ContinuousModeIgnoresCanvasWidth ==
    \A sheet \in Outputs :
        sheet.config.continuousMode =>
            LET other == Regenerated(sheet, OtherCanvasWidth(lPartial))
            IN  /\ sheet.kind = "ok"
                /\ other.kind = sheet.kind
                /\ other.layout = sheet.layout
                /\ other.canvasWidth = sheet.canvasWidth
                /\ other.canvasHeight = sheet.canvasHeight

(***************************************************************************)
(* Cell boxes and the canvas: claim C29 (specification SpecLayout)         *)
(***************************************************************************)
\* The box of cell i of a sheet's layout, in mm: content + 2 * padding +
\* 2 * borderWidth from the cell's origin.
BoxMm(sheet, i) ==
    LET item == sheet.layout.barcodes[i]
        frame == 2 * SheetPaddingMm(sheet) + 2 * hundredthsOfMm(sheet.config.borderWidthMm)
    IN  [x |-> item.x, y |-> item.y,
         w |-> item.widthMm + frame, h |-> item.heightMm + frame]

Overlap(a, b) ==
    /\ a.x < b.x + b.w
    /\ b.x < a.x + a.w
    /\ a.y < b.y + b.h
    /\ b.y < a.y + a.h

\* The box lies within the rectangle from (left, top) to (right, bottom).
Within(box, left, top, right, bottom) ==
    /\ box.x >= left
    /\ box.y >= top
    /\ box.x + box.w <= right
    /\ box.y + box.h <= bottom

BoxesDisjointMm(sheet) ==
    \A i, j \in 1..Len(sheet.layout.barcodes) :
        i # j => ~Overlap(BoxMm(sheet, i), BoxMm(sheet, j))

BoxesInsideMarginsMm(sheet) ==
    \A i \in 1..Len(sheet.layout.barcodes) :
        Within(BoxMm(sheet, i),
               hundredthsOfMm(sheet.config.marginsMm.left),
               hundredthsOfMm(sheet.config.marginsMm.top),
               sheet.layout.canvasWidthMm - hundredthsOfMm(sheet.config.marginsMm.right),
               sheet.layout.canvasHeightMm - hundredthsOfMm(sheet.config.marginsMm.bottom))

\* Every border overlay and every image of the PNG sheet is inside the
\* created canvas, in pixels.
PixelsInsideCanvas(sheet) ==
    \A i \in 1..Len(sheet.cells) :
        LET cell == sheet.cells[i]
        IN  /\ Within([x |-> cell.borderX, y |-> cell.borderY,
                       w |-> cell.borderWidth, h |-> cell.borderHeight],
                      0, 0, sheet.canvasWidth, sheet.canvasHeight)
            /\ Within([x |-> cell.imageX, y |-> cell.imageY,
                       w |-> cell.imageWidth, h |-> cell.imageHeight],
                      0, 0, sheet.canvasWidth, sheet.canvasHeight)

\* C29 (as claimed): in every layout no two cell boxes overlap and every box
\* lies inside the canvas minus its margins; and every border overlay and
\* image generatePrintReadyPNG places lies within the pixel bounds of the
\* canvas it creates.
C29_BoxesDisjointAndInsideCanvas ==
    /\ \A sheet \in Sheets : BoxesDisjointMm(sheet) /\ BoxesInsideMarginsMm(sheet)
    /\ lPng.kind = "ok" => PixelsInsideCanvas(lPng)

(***************************************************************************)
(* Claims about request validation                                        *)
(***************************************************************************)

\* The constraints as they are declared: ignoreDigits count from 0 to 20.
DeclaredConstraintsHold(req) ==
    /\ inRange(req.dataLength, dataMin(req.endpoint), MaxData)
    /\ ~(req.dataLength >= 1 /\ req.firstIsEmpty)
    /\ req.type \in barcodeTypeSchema
    /\ inRange(req.width, SchemaMinWidth, SchemaMaxWidth)
    /\ inRange(req.height, SchemaMinWidth, SchemaMaxWidth)
    /\ req.unit \in {"cm", "inches"}
    /\ inRange(req.fontSize, SchemaMinFontSize, SchemaMaxFontSize)
    /\ (req.ignoreCount = Undefined \/ inRange(req.ignoreCount, 0, MaxIgnoreCount))
    /\ req.orientation \in {"absent", "horizontal", "vertical"}

\* C17: a request reaches the route handler if and only if it satisfies the
\* declared constraints (data 1..1000 non-empty strings, 20..1000 on the
\* print-ready endpoints, width and height in [0.1, 50], font size in
\* [8, 48], ignoreDigits count in [0, 20], type, unit and orientation in
\* their enums); every other request is answered 400 with the offending
\* field paths.
C17_ValidationGatesDeclaredConstraints ==
    vResponse.status /= "none" =>
        /\ (vResponse.status = "next") <=> DeclaredConstraintsHold(vRequest)
        /\ vResponse.status /= "next" =>
               /\ vResponse.status = "400"
               /\ vResponse.details /= {}

\* C24 (as claimed): every configuration that passes validation satisfies
\* the dual-mode invariant: dualMode = true implies dualDimensions and
\* dualFont are both present, dualMode = false implies both are absent; a
\* configuration violating it is rejected as a validation error.
C24_ValidatedConfigKeepsDualInvariant ==
    vResponse.status = "next" =>
        /\ vRequest.dualMode => (vRequest.hasDualDimensions /\ vRequest.hasDualFont)
        /\ ~vRequest.dualMode => (~vRequest.hasDualDimensions /\ ~vRequest.hasDualFont)

(***************************************************************************)
(* Claims about the ZIP stream                                            *)
(***************************************************************************)

\* C18: when the archive fails at any point, the client has received no
\* archive bytes and no success status: the response is the 500 error.
C18_NoPartialArchiveDelivered ==
    zPc = "failed" => (zBody = <<>> /\ zStatus = "500")

(***************************************************************************)
(* Claims about the streamed-response consumer                            *)
(***************************************************************************)

RECURSIVE lengthOfFirst(_, _)
lengthOfFirst(chunks, n) ==
    IF n = 0 THEN 0 ELSE lengthOfFirst(chunks, n - 1) + Len(chunks[n])

\* The blob returned is the chunks in arrival order.
BlobIsConcatenation ==
    cPc = "done" => cBlob = combine(cIncoming)

\* With a known total, one report per chunk, each receivedLength/total*100,
\* never decreasing.
ProgressPerChunk ==
    cTotal > 0 =>
        /\ Len(cProgress) = Len(cChunks)
        /\ \A i \in 1..Len(cProgress) :
               cProgress[i] = percent(lengthOfFirst(cIncoming, i), cTotal)
        /\ \A i \in 1..(Len(cProgress) - 1) :
               cProgress[i].num <= cProgress[i + 1].num

\* Without a known total, a chunk received is still signalled.
IndeterminateProgressReported ==
    (cTotal = 0 /\ cChunks /= <<>>) => cProgress /= <<>>

\* C20: the consumer returns the concatenation of the received chunks in
\* arrival order, reports receivedLength/total*100 after every chunk when
\* Content-Length is known, and reports indeterminate progress when it is
\* not.
C20_ConsumerConcatenatesAndReportsProgress ==
    /\ BlobIsConcatenation
    /\ ProgressPerChunk
    /\ IndeterminateProgressReported


(***************************************************************************)
(* Claims about the generation dialog                                     *)
(***************************************************************************)

\* A handler call that has started and has neither completed nor failed.
RunInFlight == \E r \in 1..Len(gRuns) : gRuns[r].pc \in {"determining", "generating"}

\* C27 (as claimed): while a handleGenerate / handleGeneratePrintReady call
\* is in flight, isGenerating is true and status is determining or
\* generating, whatever timer of an earlier run or closeModal interleaves;
\* and status is never success while isGenerating is false.
C27_DialogFollowsRunInFlight ==
    /\ RunInFlight => (gIsGenerating /\ gStatus \in {"determining", "generating"})
    /\ ~(gStatus = "success" /\ ~gIsGenerating)

====
